---- MODULE Spec2Model ----
(***************************************************************************)
(* OPR essay grading engine: the keyword scorers, the fuzzy keyword        *)
(* matcher and the clarity / completeness heuristics, modelled from        *)
(*   src/auto_grading_system.py     AutoGradingSystem                      *)
(*   src/OPR_시스템_AI.py             BasicGrader                            *)
(*   src/auto_grading_system_v2.py  AutoGradingSystemV2                    *)
(*   src/claude_api_client.py       ClaudeAPIClient                        *)
(*                                                                         *)
(* A Python str is a sequence of one-character strings.  A score is an     *)
(* integer number of 1/Scale points, so that max_logic_score * m / n and   *)
(* max_points * multiplier are exact (the source computes them in binary   *)
(* floating point; the model is the exact rational value).                 *)
(***************************************************************************)
EXTENDS Integers, Sequences, FiniteSets, TLC

VARIABLES
    pc,             \* position of the grading call: "idle", "returned", "raised"
    grader,         \* which entry point ran: "none" or the class name
    answer_text,    \* the answer text handed to the grader
    criteria,       \* GradingCriteria of the call
    result,         \* the value returned (or the exception raised)
    fm_pc,          \* position inside BasicGrader.fuzzy_match
    keyword,        \* fuzzy_match argument keyword
    text,           \* fuzzy_match argument text
    norm_kw,        \* fuzzy_match local
    norm_text,      \* fuzzy_match local
    kw_idx,         \* number of characters of norm_kw the for loop has consumed
    text_idx,       \* fuzzy_match local
    matched_chars,  \* fuzzy_match local
    fm_ret,         \* value returned by fuzzy_match
    api_available,  \* AutoGradingSystemV2.api_available, set by __init__
    self_grade_to_score,  \* AutoGradingSystem.grade_to_score of the shared instance
    frames,         \* the frames of the grade_answer invocations on the shared instance
    call_log        \* the (arguments, result) pairs of the invocations that returned

grade_vars == <<pc, grader, answer_text, criteria, result, api_available>>
call_vars == <<self_grade_to_score, frames, call_log>>
fm_vars == <<fm_pc, keyword, text, norm_kw, norm_text, kw_idx, text_idx, matched_chars, fm_ret>>
vars == <<pc, grader, answer_text, criteria, result,
          fm_pc, keyword, text, norm_kw, norm_text, kw_idx, text_idx, matched_chars, fm_ret,
          api_available, self_grade_to_score, frames, call_log>>

----------------------------------------------------------------------------
(* Characters *)

SP == " "
TAB == "\t"
NL == "\n"
BOX == "□"
DOT == "."
LPAR == "("
RPAR == ")"
LBRK == "["
RBRK == "]"

LowerLetters == {"a", "b"}
UpperLetters == {"A", "B"}
Digits == {"0", "1", "2", "3", "4", "5", "6", "7", "8", "9"}
NonZeroDigits == Digits \ {"0"}
Whitespace == {SP, TAB, NL}

\* the Greek capital sigma and its two lower-case forms
SIGMA == "Σ"
SmallSigma == "σ"
FinalSmallSigma == "ς"

\* the characters with the Unicode properties Cased and Case_Ignorable
Cased == LowerLetters \cup UpperLetters \cup {SIGMA, SmallSigma, FinalSmallSigma}
CaseIgnorable == {DOT}

\* the regex class \w
IsWordChar(c) == c \in Cased \cup Digits

\* str.lower() on one character
LowerChar(c) == IF c = "A" THEN "a" ELSE IF c = "B" THEN "b" ELSE c

----------------------------------------------------------------------------
(* Python str operations *)

Max(a, b) == IF a >= b THEN a ELSE b
Min(a, b) == IF a <= b THEN a ELSE b

\* s.replace(c, '') for a one-character c
Remove(s, c) == SelectSeq(s, LAMBDA x : x # c)

\* the capital sigma at position i of s is lowercased to the final form: the nearest
\* character before it that is not case-ignorable is cased, and the nearest one after
\* it, if any, is not
FinalSigma(s, i) ==
    LET before == {j \in 1..(i - 1) : s[j] \notin CaseIgnorable}
        after == {j \in (i + 1)..Len(s) : s[j] \notin CaseIgnorable}
    IN /\ before # {}
       /\ s[CHOOSE j \in before : \A k \in before : k <= j] \in Cased
       /\ after # {} => s[CHOOSE j \in after : \A k \in after : j <= k] \notin Cased

\* s.lower()
Lower(s) ==
    [i \in 1..Len(s) |->
        IF s[i] = SIGMA
        THEN (IF FinalSigma(s, i) THEN FinalSmallSigma ELSE SmallSigma)
        ELSE LowerChar(s[i])]

\* sub occurs in s at 0-based offset p
OccursAt(sub, s, p) ==
    /\ p >= 0
    /\ p + Len(sub) <= Len(s)
    /\ \A j \in 1..Len(sub) : s[p + j] = sub[j]

\* sub in s
Contains(sub, s) == \E p \in 0..(Len(s) - Len(sub)) : OccursAt(sub, s, p)

\* s.find(c, start) for a one-character c: lowest 0-based index >= start, else -1
Find(s, c, start) ==
    LET hits == {p \in start..(Len(s) - 1) : s[p + 1] = c}
    IN IF hits = {} THEN -1 ELSE CHOOSE p \in hits : \A q \in hits : p <= q

\* s.count(sub): non-overlapping occurrences taken greedily from the left, from
\* 0-based offset p on; the empty string is counted len(s) + 1 times
RECURSIVE CountFrom(_, _, _)
CountFrom(s, sub, p) ==
    LET hits == {q \in p..(Len(s) - Len(sub)) : OccursAt(sub, s, q)}
    IN IF hits = {} THEN 0
       ELSE LET q == CHOOSE h \in hits : \A g \in hits : h <= g
            IN 1 + CountFrom(s, sub, q + Len(sub))

Count(s, sub) == IF Len(sub) = 0 THEN Len(s) + 1 ELSE CountFrom(s, sub, 0)

\* s.split('\n'): the pieces between consecutive newlines, from 0-based offset p on
RECURSIVE SplitFrom(_, _)
SplitFrom(s, p) ==
    LET q == Find(s, NL, p)
    IN IF q = -1 THEN <<SubSeq(s, p + 1, Len(s))>>
       ELSE <<SubSeq(s, p + 1, q)>> \o SplitFrom(s, q + 1)

SplitLines(s) == SplitFrom(s, 0)

\* s.strip()
Strip(s) ==
    LET keep == {i \in 1..Len(s) : s[i] \notin Whitespace}
    IN IF keep = {} THEN <<>>
       ELSE LET lo == CHOOSE i \in keep : \A j \in keep : i <= j
                hi == CHOOSE i \in keep : \A j \in keep : i >= j
            IN SubSeq(s, lo, hi)

\* [x for x in xs if x.strip()]
NonBlank(xs) == SelectSeq(xs, LAMBDA l : Strip(l) # <<>>)

----------------------------------------------------------------------------
(* BasicGrader.normalize_text and BasicGrader.fuzzy_match *)

normalize_text_keeps_tab(t) ==
    LET t1 == Remove(Remove(t, SP), NL)
        t2 == Remove(Remove(Remove(Remove(t1, LPAR), RPAR), LBRK), RBRK)
    IN Lower(t2)

normalize_text(t) ==
    LET t1 == Remove(Remove(Remove(t, SP), TAB), NL)
        t2 == Remove(Remove(Remove(Remove(t1, LPAR), RPAR), LBRK), RBRK)
    IN Lower(t2)

\* line 843: norm_kw in norm_text
exact_match_prefix(nkw, ntext) == OccursAt(nkw, ntext, 0)
exact_match(nkw, ntext) == Contains(nkw, ntext)

\* line 847: len(norm_kw) < 3
short_keyword_lt2(nkw) == Len(nkw) < 2
short_keyword(nkw) == Len(nkw) < 3

\* the largest power of two that is at most k, for k >= 1
RECURSIVE Pow2Floor(_)
Pow2Floor(k) == IF k < 2 THEN 1 ELSE 2 * Pow2Floor(k \div 2)

\* int(n * 0.7) in IEEE-754 double arithmetic.  The double 0.7 is 0.7 - (2/5) * 2^-53,
\* so the exact product is 7n/10 - n * (2/5) * 2^-53.  When 10 does not divide n the
\* product and its rounding stay strictly between two integers and the truncation is
\* floor(7n/10).  When n = 10j the product is 7j - j * 2^-51; the doubles next to it
\* are 7j and 7j - 2^(e-52) with 2^e <= 7j < 2^(e+1), and round-to-nearest-even gives
\* 7j if 4j <= 2^e and the double below 7j otherwise, which truncates to 7j - 1.
int_times_07(n) ==
    LET k == (7 * n) \div 10
    IN IF n > 0 /\ n % 10 = 0 /\ 4 * (n \div 10) > Pow2Floor(k) THEN k - 1 ELSE k

\* max(3, int(len(norm_kw) * 0.7))
required_chars_of(kw) == Max(3, int_times_07(Len(kw)))

\* one iteration of "for char in norm_kw": the pair <<matched_chars, text_idx>> after it
scan_step(char, ntext, st) ==
    LET pos == Find(ntext, char, st[2])
    IN IF pos # -1 THEN <<st[1] + 1, pos + 1>> ELSE st

RECURSIVE scan_from(_, _, _, _)
scan_from(nkw, ntext, i, st) ==
    IF i > Len(nkw) THEN st
    ELSE scan_from(nkw, ntext, i + 1, scan_step(nkw[i], ntext, st))

fuzzy_match(kw, t) ==
    LET nkw == normalize_text(kw)
        ntext == normalize_text(t)
    IN IF exact_match(nkw, ntext) THEN TRUE
       ELSE IF short_keyword(nkw) THEN FALSE
       ELSE scan_from(nkw, ntext, 1, <<0, 0>>)[1] >= required_chars_of(nkw)

----------------------------------------------------------------------------
(* Scores: integers in units of 1/Scale point *)

MaxKeywords == 2

\* Scenarios B and C of the specification: ten required keywords
ScenarioKeywords == <<<<"0">>, <<"1">>, <<"2">>, <<"3">>, <<"4">>, <<"5">>, <<"6">>, <<"7">>, <<"8">>, <<"9">>>>

RECURSIVE Gcd(_, _)
Gcd(a, b) == IF b = 0 THEN a ELSE Gcd(b, a % b)

RECURSIVE LcmUpTo(_)
LcmUpTo(n) == IF n <= 1 THEN 1 ELSE LET l == LcmUpTo(n - 1) IN (l * n) \div Gcd(l, n)

\* every len(required_keywords) of the model divides Scale, and so does 100
Scale == 100 * LcmUpTo(Max(MaxKeywords, Len(ScenarioKeywords)))

\* a whole number of points
Points(n) == n * Scale

\* round(x, 1): to the nearest tenth of a point, ties to even
Round1(x) ==
    LET u == Scale \div 10
        q == x \div u
        r == x % u
    IN IF 2 * r < u THEN q * u
       ELSE IF 2 * r > u THEN (q + 1) * u
       ELSE IF q % 2 = 0 THEN q * u ELSE (q + 1) * u

----------------------------------------------------------------------------
(* Python dict, in insertion order: a sequence of [key, value] with distinct keys *)

DictHas(d, k) == \E i \in 1..Len(d) : d[i].key = k

DictGet(d, k, default) ==
    IF DictHas(d, k) THEN d[CHOOSE i \in 1..Len(d) : d[i].key = k].value ELSE default

\* d[k] = v
DictSet(d, k, v) ==
    IF DictHas(d, k)
    THEN [i \in 1..Len(d) |-> IF d[i].key = k THEN [key |-> k, value |-> v] ELSE d[i]]
    ELSE Append(d, [key |-> k, value |-> v])

DictKeys(d) == [i \in 1..Len(d) |-> d[i].key]

\* xs[:n]
Take(xs, n) == SubSeq(xs, 1, Min(n, Len(xs)))

----------------------------------------------------------------------------
(* AutoGradingSystem (src/auto_grading_system.py) *)

DefaultMaxLogic == 40
DefaultMaxClarity == 30
DefaultMaxCompleteness == 30

ForbiddenPenalty == 2
ClarityBase == 85
CompletenessBase == 85
RepeatCount == 5
MaxLineLen == 35
ShortLineLen == 15
MaxTitleLen == 21
MinLines == 15

Grades == {"S", "A", "B", "C", "D"}

\* self.grade_to_score, in hundredths
grade_to_score_d30 == [g \in Grades |->
    CASE g = "S" -> 100 [] g = "A" -> 85 [] g = "B" -> 70 [] g = "C" -> 55 [] g = "D" -> 30]
grade_to_score == [g \in Grades |->
    CASE g = "S" -> 100 [] g = "A" -> 85 [] g = "B" -> 70 [] g = "C" -> 55 [] g = "D" -> 40]

\* max_points * self.grade_to_score[grade]
grade_points(max_points, grade) == max_points * grade_to_score[grade] * (Scale \div 100)

\* line 208
clarity_points(c, grade) == grade_points(c.max_clarity_score, grade)

\* line 209
completeness_points_copied(c, grade) == grade_points(c.max_clarity_score, grade)
completeness_points(c, grade) == grade_points(c.max_completeness_score, grade)

\* the "for keyword in criteria.required_keywords" loop, lines 67-72
RECURSIVE match_keywords(_, _, _, _)
match_keywords(required_keywords, i, normalized_answer, keyword_matches) ==
    IF i > Len(required_keywords) THEN keyword_matches
    ELSE LET kw == required_keywords[i]
             count == Count(normalized_answer, Remove(kw, SP))
         IN match_keywords(required_keywords, i + 1, normalized_answer,
                           IF count > 0 THEN DictSet(keyword_matches, kw, count)
                           ELSE keyword_matches)

\* the "for forbidden in criteria.forbidden_keywords" loop, lines 75-79
find_forbidden_once(forbidden_keywords, normalized_answer) ==
    LET first == {i \in 1..Len(forbidden_keywords) :
                     \A j \in 1..(i - 1) : forbidden_keywords[j] # forbidden_keywords[i]}
        found == SelectSeq([i \in 1..Len(forbidden_keywords) |-> i],
                           LAMBDA i : i \in first
                                      /\ Contains(Remove(forbidden_keywords[i], SP),
                                                  normalized_answer))
    IN [k \in 1..Len(found) |-> forbidden_keywords[found[k]]]

find_forbidden_nonempty(forbidden_keywords, normalized_answer) ==
    SelectSeq(forbidden_keywords,
              LAMBDA f : Remove(f, SP) # <<>> /\ Contains(Remove(f, SP), normalized_answer))

find_forbidden(forbidden_keywords, normalized_answer) ==
    SelectSeq(forbidden_keywords, LAMBDA f : Contains(Remove(f, SP), normalized_answer))

\* lines 82-87
logic_final_score_penalty1(c, keyword_matches, forbidden_found) ==
    LET base_score ==
            IF Len(c.required_keywords) > 0
            THEN (Points(c.max_logic_score) * Len(keyword_matches)) \div Len(c.required_keywords)
            ELSE 0
        penalty == Points(Len(forbidden_found))
    IN Max(0, base_score - penalty)

logic_final_score_nofloor(c, keyword_matches, forbidden_found) ==
    LET base_score ==
            IF Len(c.required_keywords) > 0
            THEN (Points(c.max_logic_score) * Len(keyword_matches)) \div Len(c.required_keywords)
            ELSE 0
        penalty == Points(Len(forbidden_found) * ForbiddenPenalty)
    IN base_score - penalty

logic_final_score(c, keyword_matches, forbidden_found) ==
    LET base_score ==
            IF Len(c.required_keywords) > 0
            THEN (Points(c.max_logic_score) * Len(keyword_matches)) \div Len(c.required_keywords)
            ELSE 0
        penalty == Points(Len(forbidden_found) * ForbiddenPenalty)
    IN Max(0, base_score - penalty)

calculate_logic_score(t, c) ==
    LET normalized_answer == Remove(t, SP)
        keyword_matches == match_keywords(c.required_keywords, 1, normalized_answer, <<>>)
        forbidden_found == find_forbidden(c.forbidden_keywords, normalized_answer)
    IN [final_score |-> logic_final_score(c, keyword_matches, forbidden_found),
        keyword_matches |-> keyword_matches,
        forbidden_found |-> forbidden_found]

\* re.findall(r'[\w]{2,}', text): the maximal runs of word characters of length >= 2,
\* left to right from 1-based position p on
RECURSIVE WordRunsFrom(_, _)
WordRunsFrom(s, p) ==
    LET starts == {i \in p..Len(s) : IsWordChar(s[i])}
    IN IF starts = {} THEN <<>>
       ELSE LET lo == CHOOSE i \in starts : \A j \in starts : i <= j
                stops == {i \in lo..Len(s) : ~IsWordChar(s[i])}
                hi == IF stops = {} THEN Len(s) + 1
                      ELSE CHOOSE i \in stops : \A j \in stops : i <= j
            IN (IF hi - lo >= 2 THEN <<SubSeq(s, lo, hi - 1)>> ELSE <<>>)
               \o WordRunsFrom(s, hi)

RECURSIVE count_words(_, _, _)
count_words(words, i, word_count) ==
    IF i > Len(words) THEN word_count
    ELSE count_words(words, i + 1,
                     IF Len(words[i]) >= 2
                     THEN DictSet(word_count, words[i], DictGet(word_count, words[i], 0) + 1)
                     ELSE word_count)

check_repetition(t) ==
    LET word_count == count_words(WordRunsFrom(t, 1), 1, <<>>)
    IN DictKeys(SelectSeq(word_count, LAMBDA e : e.value >= RepeatCount))

\* [i+1 for i, line in enumerate(lines) if len(line.replace(' ', '')) > 35]
long_lines_of_ge(t) ==
    LET lines == SplitLines(t)
        RECURSIVE from(_)
        from(i) == IF i > Len(lines) THEN <<>>
                   ELSE (IF Len(Remove(lines[i], SP)) >= MaxLineLen THEN <<i>> ELSE <<>>)
                        \o from(i + 1)
    IN from(1)

long_lines_of(t) ==
    LET lines == SplitLines(t)
        RECURSIVE from(_)
        from(i) == IF i > Len(lines) THEN <<>>
                   ELSE (IF Len(Remove(lines[i], SP)) > MaxLineLen THEN <<i>> ELSE <<>>)
                        \o from(i + 1)
    IN from(1)

is_keyword_listing_half(t) ==
    LET lines == NonBlank(SplitLines(t))
        short_lines == SelectSeq(lines, LAMBDA l : Len(Strip(l)) < ShortLineLen)
    IN IF Len(lines) > 0 THEN 2 * Len(short_lines) >= Len(lines) ELSE FALSE

is_keyword_listing(t) ==
    LET lines == NonBlank(SplitLines(t))
        short_lines == SelectSeq(lines, LAMBDA l : Len(Strip(l)) < ShortLineLen)
    IN IF Len(lines) > 0 THEN 2 * Len(short_lines) > Len(lines) ELSE FALSE

\* the if/elif chain "score >= 90 ... else 'D'" of both evaluators
score_to_grade_s85(score) ==
    IF score >= 85 THEN "S"
    ELSE IF score >= 80 THEN "A"
    ELSE IF score >= 70 THEN "B"
    ELSE IF score >= 60 THEN "C"
    ELSE "D"

score_to_grade(score) ==
    IF score >= 90 THEN "S"
    ELSE IF score >= 80 THEN "A"
    ELSE IF score >= 70 THEN "B"
    ELSE IF score >= 60 THEN "C"
    ELSE "D"

evaluate_clarity_listing5(t) ==
    LET repeated_words == check_repetition(t)
        long_lines == long_lines_of(t)
        listing == is_keyword_listing(t)
        score == ClarityBase
                 - (IF Len(repeated_words) > 0 THEN 10 ELSE 0)
                 - (IF Len(long_lines) > 0 THEN 5 ELSE 0)
                 - (IF listing THEN 5 ELSE 0)
        feedback ==
            (IF Len(repeated_words) > 0
             THEN <<[kind |-> "repetition", words |-> Take(repeated_words, 3)]>> ELSE <<>>)
            \o (IF Len(long_lines) > 0
                THEN <<[kind |-> "long_lines", lines |-> Take(long_lines, 3)]>> ELSE <<>>)
            \o (IF listing THEN <<[kind |-> "keyword_listing"]>> ELSE <<>>)
    IN [grade |-> score_to_grade(score), feedback |-> feedback, score |-> score]

evaluate_clarity(t) ==
    LET repeated_words == check_repetition(t)
        long_lines == long_lines_of(t)
        listing == is_keyword_listing(t)
        score == ClarityBase
                 - (IF Len(repeated_words) > 0 THEN 10 ELSE 0)
                 - (IF Len(long_lines) > 0 THEN 5 ELSE 0)
                 - (IF listing THEN 10 ELSE 0)
        feedback ==
            (IF Len(repeated_words) > 0
             THEN <<[kind |-> "repetition", words |-> Take(repeated_words, 3)]>> ELSE <<>>)
            \o (IF Len(long_lines) > 0
                THEN <<[kind |-> "long_lines", lines |-> Take(long_lines, 3)]>> ELSE <<>>)
            \o (IF listing THEN <<[kind |-> "keyword_listing"]>> ELSE <<>>)
    IN [grade |-> score_to_grade(score), feedback |-> feedback, score |-> score]

\* re.search(r'^.{1,21}$', answer_text.split('\n')[0])
has_title_upto22(t) ==
    LET first == SplitLines(t)[1] IN Len(first) >= 1 /\ Len(first) <= MaxTitleLen + 1

has_title(t) == LET first == SplitLines(t)[1] IN Len(first) >= 1 /\ Len(first) <= MaxTitleLen

\* re.findall(r'^[1-9]\.', answer_text, re.MULTILINE)
has_sections_first_line(t) ==
    LET lines == SplitLines(t)
    IN Len(lines[1]) >= 2 /\ lines[1][1] \in NonZeroDigits /\ lines[1][2] = DOT

has_sections(t) ==
    LET lines == SplitLines(t)
    IN \E i \in 1..Len(lines) :
          Len(lines[i]) >= 2 /\ lines[i][1] \in NonZeroDigits /\ lines[i][2] = DOT

\* re.findall(r'^□', answer_text, re.MULTILINE)
has_subsections(t) ==
    LET lines == SplitLines(t)
    IN \E i \in 1..Len(lines) : Len(lines[i]) >= 1 /\ lines[i][1] = BOX

evaluate_completeness(t) ==
    LET title == has_title(t)
        sections == has_sections(t)
        subsections == has_subsections(t)
        lines == NonBlank(SplitLines(t))
        score == CompletenessBase
                 - (IF ~title THEN 5 ELSE 0)
                 - (IF ~sections THEN 10 ELSE 0)
                 - (IF ~subsections THEN 5 ELSE 0)
                 - (IF Len(lines) < MinLines THEN 10 ELSE 0)
        feedback ==
            (IF ~title THEN <<[kind |-> "no_title"]>> ELSE <<>>)
            \o (IF ~sections THEN <<[kind |-> "no_sections"]>> ELSE <<>>)
            \o (IF ~subsections THEN <<[kind |-> "no_subsections"]>> ELSE <<>>)
            \o (IF Len(lines) < MinLines
                THEN <<[kind |-> "too_short", lines |-> Len(lines)]>> ELSE <<>>)
    IN [grade |-> score_to_grade(score), feedback |-> feedback, score |-> score]

\* lines 206 and 212-238: total_score, the feedback list and the GradingResult, from
\* the locals of grade_answer
build_result_reasons_last(c, logic, clarity, completeness, clarity_score, completeness_score) ==
    LET total_score == logic.final_score + clarity_score + completeness_score
        feedback ==
            <<[kind |-> "logic_header", score |-> logic.final_score, max |-> c.max_logic_score],
              [kind |-> "keyword_count", matched |-> Len(logic.keyword_matches),
               of |-> Len(c.required_keywords)]>>
            \o (IF Len(logic.keyword_matches) > 0
                THEN <<[kind |-> "found_keywords",
                        keys |-> Take(DictKeys(logic.keyword_matches), 10)]>>
                ELSE <<>>)
            \o (IF Len(logic.forbidden_found) > 0
                THEN <<[kind |-> "forbidden_found",
                        penalty |-> Len(logic.forbidden_found) * 2,
                        terms |-> logic.forbidden_found]>>
                ELSE <<>>)
            \o <<[kind |-> "clarity_header", grade |-> clarity.grade,
                  points |-> clarity_score, max |-> c.max_clarity_score]>>
            \o <<[kind |-> "completeness_header", grade |-> completeness.grade,
                  points |-> completeness_score, max |-> c.max_completeness_score]>>
            \o clarity.feedback
            \o completeness.feedback
            \o <<[kind |-> "rule"], [kind |-> "total", total |-> total_score]>>
    IN [kind |-> "GradingResult",
        logic_score |-> logic.final_score,
        clarity_score |-> clarity.grade,
        completeness_score |-> completeness.grade,
        total_score |-> total_score,
        feedback |-> feedback,
        keyword_matches |-> logic.keyword_matches,
        forbidden_found |-> logic.forbidden_found]

build_result(c, logic, clarity, completeness, clarity_score, completeness_score) ==
    LET total_score == logic.final_score + clarity_score + completeness_score
        feedback ==
            <<[kind |-> "logic_header", score |-> logic.final_score, max |-> c.max_logic_score],
              [kind |-> "keyword_count", matched |-> Len(logic.keyword_matches),
               of |-> Len(c.required_keywords)]>>
            \o (IF Len(logic.keyword_matches) > 0
                THEN <<[kind |-> "found_keywords",
                        keys |-> Take(DictKeys(logic.keyword_matches), 10)]>>
                ELSE <<>>)
            \o (IF Len(logic.forbidden_found) > 0
                THEN <<[kind |-> "forbidden_found",
                        penalty |-> Len(logic.forbidden_found) * 2,
                        terms |-> logic.forbidden_found]>>
                ELSE <<>>)
            \o <<[kind |-> "clarity_header", grade |-> clarity.grade,
                  points |-> clarity_score, max |-> c.max_clarity_score]>>
            \o clarity.feedback
            \o <<[kind |-> "completeness_header", grade |-> completeness.grade,
                  points |-> completeness_score, max |-> c.max_completeness_score]>>
            \o completeness.feedback
            \o <<[kind |-> "rule"], [kind |-> "total", total |-> total_score]>>
    IN [kind |-> "GradingResult",
        logic_score |-> logic.final_score,
        clarity_score |-> clarity.grade,
        completeness_score |-> completeness.grade,
        total_score |-> total_score,
        feedback |-> feedback,
        keyword_matches |-> logic.keyword_matches,
        forbidden_found |-> logic.forbidden_found]

grade_answer(t, c) ==
    LET logic == calculate_logic_score(t, c)
        clarity == evaluate_clarity(t)
        completeness == evaluate_completeness(t)
        clarity_score == clarity_points(c, clarity.grade)
        completeness_score == completeness_points(c, completeness.grade)
    IN build_result(c, logic, clarity, completeness, clarity_score, completeness_score)

----------------------------------------------------------------------------
(* BasicGrader.grade_answer (src/OPR_시스템_AI.py) *)

\* len([l for l in answer_text.strip().split('\n') if l.strip()])
basic_line_count(t) == Len(NonBlank(SplitLines(Strip(t))))

basic_grade_answer(t, keywords, forbidden) ==
    LET matched == SelectSeq(keywords, LAMBDA kw : fuzzy_match(kw, t))
        missing == SelectSeq(keywords, LAMBDA kw : ~fuzzy_match(kw, t))
        found_forbidden == SelectSeq(forbidden, LAMBDA w : fuzzy_match(w, t))
        logic_base ==
            IF Len(keywords) > 0 THEN (Points(40) * Len(matched)) \div Len(keywords) ELSE 0
        logic_score == Max(0, logic_base - Points(Len(found_forbidden) * 2))
        line_count == basic_line_count(t)
        completeness_score ==
            IF line_count >= 15 THEN Points(22)
            ELSE IF line_count >= 10 THEN Points(18)
            ELSE Points(14)
        completeness_grade ==
            IF line_count >= 15 THEN "B" ELSE IF line_count >= 10 THEN "C" ELSE "D"
        clarity_score == Points(21)
        clarity_grade == "B"
        total == logic_score + clarity_score + completeness_score
        well_done ==
            (IF Len(matched) > 0 THEN <<"keywords_included">> ELSE <<>>)
            \o (IF 10 * Len(matched) >= 7 * Len(keywords) THEN <<"over_70_percent">> ELSE <<>>)
        lacking ==
            (IF Len(missing) > 0 THEN <<"keywords_missing">> ELSE <<>>)
            \o (IF 10 * Len(missing) >= 3 * Len(keywords) THEN <<"many_missing">> ELSE <<>>)
            \o (IF Len(found_forbidden) > 0 THEN <<"forbidden_used">> ELSE <<>>)
    IN IF Len(keywords) = 0
       \* line 944 reads keyword_ratio, which is bound only when len(keywords) > 0
       THEN [kind |-> "exception", type |-> "UnboundLocalError"]
       ELSE [kind |-> "dict",
             total |-> Round1(total),
             logic |-> [score |-> Round1(logic_score), matched |-> matched,
                        missing |-> missing, found_forbidden |-> found_forbidden,
                        well_done |-> well_done, lacking |-> lacking],
             clarity |-> [grade |-> clarity_grade, score |-> clarity_score],
             completeness |-> [grade |-> completeness_grade, score |-> completeness_score]]

----------------------------------------------------------------------------
(* AutoGradingSystemV2._basic_grading (src/auto_grading_system_v2.py), called with lists *)

basic_grading(student_answer, keywords, forbidden_words) ==
    LET matched ==
            SelectSeq(keywords, LAMBDA kw : Contains(Remove(kw, SP), Remove(student_answer, SP)))
        missing ==
            SelectSeq(keywords, LAMBDA kw : ~Contains(Remove(kw, SP), Remove(student_answer, SP)))
        forbidden_found == SelectSeq(forbidden_words, LAMBDA w : Contains(w, student_answer))
        logic_base ==
            IF Len(keywords) > 0 THEN (Points(40) * Len(matched)) \div Len(keywords) ELSE 0
        logic_score == Max(0, logic_base - Points(Len(forbidden_found) * 2))
    IN [kind |-> "dict",
        total |-> Round1(logic_score + Points(42)),
        logic |-> [score |-> Round1(logic_score), matched |-> matched,
                   missing |-> missing, found_forbidden |-> forbidden_found],
        clarity |-> [grade |-> "B", score |-> Points(21)],
        completeness |-> [grade |-> "B", score |-> Points(21)]]

----------------------------------------------------------------------------
(* ClaudeAPIClient.grade_answer_with_model_answer (src/claude_api_client.py) and *)
(* AutoGradingSystemV2.grade_with_model_answer (src/auto_grading_system_v2.py)   *)

\* What self.client.messages.create does lies outside the program: the call raises,
\* or it returns text that json.loads rejects, or it returns the JSON object the
\* prompt of lines 93-109 asks for, with grades of the service's choosing.
ApiReplies ==
    {[kind |-> "raises"], [kind |-> "not_json"]}
        \cup {[kind |-> "json", clarity |-> g1, completeness |-> g2] : g1, g2 \in {"A", "C"}}

\* the object of lines 93-109
prompted_object(reply, keywords) ==
    [kind |-> "dict",
     total |-> Points(40) + grade_points(30, reply.clarity) + grade_points(30, reply.completeness),
     logic |-> [score |-> Points(40), matched |-> keywords, missing |-> <<>>,
                found_forbidden |-> <<>>],
     clarity |-> [grade |-> reply.clarity, score |-> grade_points(30, reply.clarity)],
     completeness |-> [grade |-> reply.completeness,
                       score |-> grade_points(30, reply.completeness)]]

\* lines 113-137: try: ... return json.loads(result_text)
\*                except Exception as e: return {"error", "총점": 0, "종합_피드백"}
api_grade_answer_with_model_answer(reply, keywords) ==
    IF reply.kind = "json" THEN prompted_object(reply, keywords)
    ELSE [kind |-> "dict", error |-> reply.kind, total |-> 0,
          overall_feedback |-> "error"]

\* lines 110-133, called with keyword and forbidden-word lists
grade_with_model_answer(available, reply, student_answer, keywords, forbidden_words) ==
    IF ~available THEN basic_grading(student_answer, keywords, forbidden_words)
    ELSE api_grade_answer_with_model_answer(reply, keywords)

----------------------------------------------------------------------------
(* Values shared by the specifications *)

NoResult == [kind |-> "none"]
NoCriteria ==
    [required_keywords |-> <<>>, forbidden_keywords |-> <<>>,
     max_logic_score |-> 40, max_clarity_score |-> 30, max_completeness_score |-> 30]

\* n copies of c
Rep(c, n) == [i \in 1..n |-> c]

\* all strings over the alphabet A of length at most n
StringsUpTo(A, n) == UNION {[1..k -> A] : k \in 0..n}

\* all lists over the pool P of length at most n
ListsUpTo(P, n) == UNION {[1..k -> P] : k \in 0..n}

grade_off ==
    /\ pc = "off" /\ grader = "none" /\ answer_text = <<>>
    /\ criteria = NoCriteria /\ result = NoResult /\ api_available = FALSE

\* no grade_answer invocation on a shared instance
calls_off == self_grade_to_score = grade_to_score /\ frames = <<>> /\ call_log = {}

fm_off ==
    /\ fm_pc = "off" /\ keyword = <<>> /\ text = <<>> /\ norm_kw = <<>> /\ norm_text = <<>>
    /\ kw_idx = 0 /\ text_idx = 0 /\ matched_chars = 0 /\ fm_ret = FALSE

----------------------------------------------------------------------------
(* BasicGrader.fuzzy_match, statement by statement *)

MaxLen == 4

MatchAlphabet == {"a", "b"}

MatchKeywords ==
    StringsUpTo(MatchAlphabet, MaxLen)
        \cup {<<"A", SP, "b">>, <<LPAR, "a", RPAR>>, <<SP>>, <<"a", TAB, "b", NL, "a">>,
              <<LBRK, "B", RBRK, "a", "b">>}

MatchTexts ==
    StringsUpTo(MatchAlphabet, MaxLen)
        \cup {<<"A", LPAR, "b", RPAR>>, <<"a", SP, "b", NL, "A">>, <<"b", TAB, "B", "a">>}

\* keywords and texts with the capital sigma
SigmaStrings == StringsUpTo({"A", SIGMA, SP}, MaxLen - 1)

\* a keyword of 90 characters, 62 of which the text has in order
LongKeyword == Rep("a", 62) \o Rep("b", 28)
LongText == Rep("a", 62)

InitMatch ==
    /\ grade_off
    /\ calls_off
    /\ fm_pc = "called"
    /\ \/ keyword \in MatchKeywords /\ text \in MatchTexts
       \/ keyword = LongKeyword /\ text = LongText
       \/ keyword \in SigmaStrings /\ text \in SigmaStrings
    /\ norm_kw = <<>> /\ norm_text = <<>>
    /\ kw_idx = 0 /\ text_idx = 0 /\ matched_chars = 0 /\ fm_ret = FALSE

\* lines 840-841
FuzzyNormalize ==
    /\ fm_pc = "called"
    /\ norm_kw' = normalize_text(keyword)
    /\ norm_text' = normalize_text(text)
    /\ fm_pc' = "normalized"
    /\ UNCHANGED <<keyword, text, kw_idx, text_idx, matched_chars, fm_ret>>
    /\ UNCHANGED grade_vars
    /\ UNCHANGED call_vars

\* lines 843-844: if norm_kw in norm_text: return True
FuzzyExact ==
    /\ fm_pc = "normalized"
    /\ exact_match(norm_kw, norm_text)
    /\ fm_ret' = TRUE
    /\ fm_pc' = "returned_exact"
    /\ UNCHANGED <<keyword, text, norm_kw, norm_text, kw_idx, text_idx, matched_chars>>
    /\ UNCHANGED grade_vars
    /\ UNCHANGED call_vars

\* lines 847-848: if len(norm_kw) < 3: return False
FuzzyShort ==
    /\ fm_pc = "normalized"
    /\ ~exact_match(norm_kw, norm_text)
    /\ short_keyword(norm_kw)
    /\ fm_ret' = FALSE
    /\ fm_pc' = "returned_short"
    /\ UNCHANGED <<keyword, text, norm_kw, norm_text, kw_idx, text_idx, matched_chars>>
    /\ UNCHANGED grade_vars
    /\ UNCHANGED call_vars

\* lines 851-853: the scan starts with matched_chars = 0, text_idx = 0
FuzzyStartScan ==
    /\ fm_pc = "normalized"
    /\ ~exact_match(norm_kw, norm_text)
    /\ ~short_keyword(norm_kw)
    /\ matched_chars' = 0
    /\ text_idx' = 0
    /\ kw_idx' = 0
    /\ fm_pc' = "scan"
    /\ UNCHANGED <<keyword, text, norm_kw, norm_text, fm_ret>>
    /\ UNCHANGED grade_vars
    /\ UNCHANGED call_vars

\* lines 855-859: one iteration of the for loop
FuzzyScanStep ==
    /\ fm_pc = "scan"
    /\ kw_idx < Len(norm_kw)
    /\ LET st == scan_step(norm_kw[kw_idx + 1], norm_text, <<matched_chars, text_idx>>)
       IN /\ matched_chars' = st[1]
          /\ text_idx' = st[2]
    /\ kw_idx' = kw_idx + 1
    /\ UNCHANGED <<fm_pc, keyword, text, norm_kw, norm_text, fm_ret>>
    /\ UNCHANGED grade_vars
    /\ UNCHANGED call_vars

\* line 861: return matched_chars >= required_chars
FuzzyReturn ==
    /\ fm_pc = "scan"
    /\ kw_idx = Len(norm_kw)
    /\ fm_ret' = (matched_chars >= required_chars_of(norm_kw))
    /\ fm_pc' = "returned_scan"
    /\ UNCHANGED <<keyword, text, norm_kw, norm_text, kw_idx, text_idx, matched_chars>>
    /\ UNCHANGED grade_vars
    /\ UNCHANGED call_vars

NextMatch ==
    \/ FuzzyNormalize
    \/ FuzzyExact
    \/ FuzzyShort
    \/ FuzzyStartScan
    \/ FuzzyScanStep
    \/ FuzzyReturn

SpecMatch == InitMatch /\ [][NextMatch]_vars

fm_returned == fm_pc \in {"returned_exact", "returned_short", "returned_scan"}

\* the statement machine and the operator used by BasicGrader.grade_answer agree
FuzzyMachineAgrees == fm_returned => fm_ret = fuzzy_match(keyword, text)

----------------------------------------------------------------------------
(* The grading calls: inputs and entry points *)

MaxTextLen == 3
MaxForbidden == 2
MaxHeadLines == 2

RECURSIVE JoinLines(_)
JoinLines(ls) ==
    IF Len(ls) = 0 THEN <<>>
    ELSE IF Len(ls) = 1 THEN ls[1]
    ELSE ls[1] \o <<NL>> \o JoinLines(Tail(ls))

CriteriaOf(required, forbidden, maxima) ==
    [required_keywords |-> required, forbidden_keywords |-> forbidden,
     max_logic_score |-> maxima[1], max_clarity_score |-> maxima[2],
     max_completeness_score |-> maxima[3]]

DefaultMaxima == <<DefaultMaxLogic, DefaultMaxClarity, DefaultMaxCompleteness>>
MaximaSet == {DefaultMaxima, <<7, 20, 50>>, <<0, 30, 30>>}

\* short answers, for the keyword and forbidden-term matching
ShortTexts ==
    StringsUpTo({"a", "b"}, MaxTextLen)
        \cup {<<"a", SP, "b">>, <<"A", LPAR, "b", RPAR>>, <<"a", TAB, "b">>, <<"b", NL, "A">>}

KeywordPool == {<<"a", "b">>, <<"a", SP, "b">>, <<"A", "b">>, <<"b">>}
ForbiddenPool == {<<"a">>, <<"b", SP, "a">>}

MatchCriteria ==
    {CriteriaOf(r, f, DefaultMaxima) :
        r \in ListsUpTo(KeywordPool, MaxKeywords), f \in ListsUpTo(ForbiddenPool, MaxForbidden)}

\* report-shaped answers, for the clarity and completeness heuristics: up to
\* MaxHeadLines lines of LinePool followed by n body lines, none of which is short,
\* long or repeated RepeatCount times
LinePool ==
    {<<>>,
     <<"a", "b">>,
     <<"1", DOT, "a", SP, "b">>,
     <<BOX, "b", "a">>,
     Rep("b", MaxTitleLen + 1),
     Rep("b", MaxLineLen + 1),
     <<"a", "b", SP, "a", "b", SP, "a", "b", SP, "a", "b", SP, "a", "b">>}

BodyLine(i) == Rep("a", ShortLineLen + ((i - 1) \div (RepeatCount - 1)))
BodyLines(n) == [i \in 1..n |-> BodyLine(i)]
BodyCounts == {0, MinLines - 2, MinLines - 1}

StructuredTexts ==
    {JoinLines(h \o BodyLines(n)) : h \in ListsUpTo(LinePool, MaxHeadLines), n \in BodyCounts}

StructureCriteria == {CriteriaOf(<<<<"a", "b">>>>, <<<<"b">>>>, m) : m \in MaximaSet}

\* Scenario B (4 of 10 keywords, no forbidden term) and Scenario C (10 of 10, one
\* forbidden term), and the same with no required keyword
Scenarios ==
    {<<<<"0", "1", "2", "3">>, CriteriaOf(ScenarioKeywords, <<>>, DefaultMaxima)>>,
     <<<<"0", "1", "2", "3", "4", "5", "6", "7", "8", "9", "a">>,
       CriteriaOf(ScenarioKeywords, <<<<"a">>>>, DefaultMaxima)>>}

\* answers at the edges of the heuristics: a first line of exactly MaxTitleLen
\* characters, lines of exactly MaxLineLen characters with and without a space, four
\* long lines, an answer on which every clarity deduction fires and one with a long
\* line among short lines, and two answers with a blank line between a short line and
\* a line of ShortLineLen (ShortLineLen - 1) characters, and an answer without the
\* letter a on which every deduction of both evaluators fires
EdgeTexts ==
    {Rep("b", MaxTitleLen),
     Rep("b", MaxLineLen),
     <<SP>> \o Rep("b", MaxLineLen),
     JoinLines(Rep(Rep("b", MaxLineLen + 1), 4)),
     JoinLines(<<<<"a", "b", SP, "a", "b", SP, "a", "b", SP, "a", "b", SP, "a", "b">>,
                 <<"a", "b">>,
                 Rep("b", MaxLineLen + 1)>>),
     JoinLines(<<<<"a", "b">>, <<"b", "a">>, Rep("b", MaxLineLen + 1)>>),
     JoinLines(<<<<"a", "b">>, <<>>, Rep("b", ShortLineLen)>>),
     JoinLines(<<<<SP, "a", "b", TAB>>, <<SP, TAB>>, <<SP>> \o Rep("b", ShortLineLen - 1)>>),
     JoinLines(<<Rep("b", MaxLineLen + 1),
                 <<"b", "b", SP, "b", "b", SP, "b", "b", SP, "b", "b", SP, "b", "b">>,
                 <<"b", "b">>, <<"b">>>>)}

\* terms whose normalized form is empty, next to an ordinary one, in lists of one or
\* two terms, against the empty answer and two one-word answers
DegenerateTerms == {<<>>, <<SP, SP>>, <<TAB, LPAR, RPAR, NL, LBRK, RBRK>>}
DegenerateLists ==
    LET pool == DegenerateTerms \cup {<<"a">>}
    IN {<<t>> : t \in pool} \cup {<<t, u>> : t \in pool, u \in pool}
DegenerateCriteria ==
    {CriteriaOf(r, f, DefaultMaxima) : r \in DegenerateLists, f \in DegenerateLists \cup {<<>>}}
DegenerateTexts == {<<>>, <<"a">>, <<"b">>}

Init ==
    /\ fm_off
    /\ calls_off
    /\ pc = "idle"
    /\ grader = "none"
    /\ result = NoResult
    /\ \/ answer_text \in ShortTexts /\ criteria \in MatchCriteria
       \/ answer_text \in StructuredTexts /\ criteria \in StructureCriteria
       \/ \E sc \in Scenarios : answer_text = sc[1] /\ criteria = sc[2]
       \/ answer_text \in EdgeTexts /\ criteria \in StructureCriteria
       \/ answer_text \in DegenerateTexts /\ criteria \in DegenerateCriteria
    \* __init__ lines 26-36: the API client is constructed, or its constructor raised
    /\ api_available \in (IF <<answer_text, criteria>> \in Scenarios THEN BOOLEAN ELSE {FALSE})

\* AutoGradingSystem.grade_answer(answer_text, criteria)
GradeAnswer ==
    /\ pc = "idle"
    /\ result' = grade_answer(answer_text, criteria)
    /\ grader' = "AutoGradingSystem"
    /\ pc' = "returned"
    /\ UNCHANGED <<answer_text, criteria, api_available>>
    /\ UNCHANGED fm_vars
    /\ UNCHANGED call_vars

\* BasicGrader.grade_answer(answer_text, keywords, forbidden)
BasicGraderGradeAnswer ==
    /\ pc = "idle"
    /\ LET r == basic_grade_answer(answer_text, criteria.required_keywords,
                                   criteria.forbidden_keywords)
       IN /\ result' = r
          /\ pc' = IF r.kind = "exception" THEN "raised" ELSE "returned"
    /\ grader' = "BasicGrader"
    /\ UNCHANGED <<answer_text, criteria, api_available>>
    /\ UNCHANGED fm_vars
    /\ UNCHANGED call_vars

\* AutoGradingSystemV2._basic_grading(student_answer, keywords, forbidden_words)
BasicGrading ==
    /\ pc = "idle"
    /\ result' = basic_grading(answer_text, criteria.required_keywords,
                               criteria.forbidden_keywords)
    /\ grader' = "AutoGradingSystemV2"
    /\ pc' = "returned"
    /\ UNCHANGED <<answer_text, criteria, api_available>>
    /\ UNCHANGED fm_vars
    /\ UNCHANGED call_vars

\* AutoGradingSystemV2.grade_with_model_answer(answer_text, model_answer, keywords,
\* forbidden_words); grader records whether the result came from the API client
GradeWithModelAnswer ==
    /\ pc = "idle"
    /\ \E reply \in ApiReplies :
          result' = grade_with_model_answer(api_available, reply, answer_text,
                                            criteria.required_keywords,
                                            criteria.forbidden_keywords)
    /\ grader' = IF api_available THEN "ClaudeAPIClient" ELSE "AutoGradingSystemV2"
    /\ pc' = "returned"
    /\ UNCHANGED <<answer_text, criteria, api_available>>
    /\ UNCHANGED fm_vars
    /\ UNCHANGED call_vars

Next ==
    \/ GradeAnswer
    \/ BasicGraderGradeAnswer
    \/ BasicGrading
    \/ GradeWithModelAnswer

Spec == Init /\ [][Next]_vars

TypeOK ==
    /\ pc \in {"idle", "returned", "raised"}
    /\ grader \in {"none", "AutoGradingSystem", "BasicGrader", "AutoGradingSystemV2",
                  "ClaudeAPIClient"}
    /\ pc = "idle" <=> result = NoResult

----------------------------------------------------------------------------
(* AutoGradingSystem on the report-shaped answers: the evaluators called on    *)
(* their own, and grade_answer                                                *)

EvalTexts == StructuredTexts \cup EdgeTexts \cup ShortTexts
EvalCriteria ==
    {CriteriaOf(<<<<"a", "b">>>>, f, DefaultMaxima) : f \in {<<>>, <<<<"b">>>>}}

InitEval ==
    /\ fm_off
    /\ calls_off
    /\ pc = "idle"
    /\ grader = "none"
    /\ result = NoResult
    /\ criteria \in EvalCriteria
    /\ api_available = FALSE
    /\ answer_text \in EvalTexts

\* AutoGradingSystem.evaluate_clarity(answer_text)
EvaluateClarity ==
    /\ pc = "idle"
    /\ result' = evaluate_clarity(answer_text)
    /\ grader' = "evaluate_clarity"
    /\ pc' = "returned"
    /\ UNCHANGED <<answer_text, criteria, api_available>>
    /\ UNCHANGED fm_vars
    /\ UNCHANGED call_vars

\* AutoGradingSystem.evaluate_completeness(answer_text)
EvaluateCompleteness ==
    /\ pc = "idle"
    /\ result' = evaluate_completeness(answer_text)
    /\ grader' = "evaluate_completeness"
    /\ pc' = "returned"
    /\ UNCHANGED <<answer_text, criteria, api_available>>
    /\ UNCHANGED fm_vars
    /\ UNCHANGED call_vars

\* AutoGradingSystem._is_keyword_listing(answer_text)
IsKeywordListing ==
    /\ pc = "idle"
    /\ result' = [value |-> is_keyword_listing(answer_text)]
    /\ grader' = "_is_keyword_listing"
    /\ pc' = "returned"
    /\ UNCHANGED <<answer_text, criteria, api_available>>
    /\ UNCHANGED fm_vars
    /\ UNCHANGED call_vars

NextEval ==
    \/ GradeAnswer
    \/ EvaluateClarity
    \/ EvaluateCompleteness
    \/ IsKeywordListing

SpecEval == InitEval /\ [][NextEval]_vars

----------------------------------------------------------------------------
(* AutoGradingSystemV2.format_result_for_display (src/auto_grading_system_v2.py) *)

\* d.get(key, default); a dict with string keys is a record, {} is <<>>
dict_get(d, key, default) == IF key \in DOMAIN d THEN d[key] ELSE default

\* the lines "   - {kw}" of the first 10 entries and "   ... 외 N개" beyond 10
listed_items(xs) ==
    [i \in 1..Len(Take(xs, 10)) |-> [kind |-> "item", text |-> xs[i]]]
    \o (IF Len(xs) > 10 THEN <<[kind |-> "more", count |-> Len(xs) - 10]>> ELSE <<>>)

\* lines 261-327; the returned string is the sequence of its lines
format_result_for_display(r) ==
    LET head == <<[kind |-> "rule"], [kind |-> "title"], [kind |-> "rule"], [kind |-> "blank"]>>
        logic == dict_get(r, "logic", <<>>)
        matched == dict_get(logic, "matched", <<>>)
        missing == dict_get(logic, "missing", <<>>)
        forbidden == dict_get(logic, "found_forbidden", <<>>)
        clarity == dict_get(r, "clarity", <<>>)
        completeness == dict_get(r, "completeness", <<>>)
    IN IF "error" \in DOMAIN r
       THEN head \o <<[kind |-> "error", text |-> r.error]>>
       ELSE head
            \o <<[kind |-> "total", score |-> dict_get(r, "total", 0)], [kind |-> "blank"]>>
            \o <<[kind |-> "logic", score |-> dict_get(logic, "score", 0)], [kind |-> "dashes"]>>
            \o <<[kind |-> "matched_header", count |-> Len(matched)]>>
            \o (IF Len(matched) > 0 THEN listed_items(matched) ELSE <<>>)
            \o (IF Len(missing) > 0
                THEN <<[kind |-> "missing_header", count |-> Len(missing)]>>
                     \o listed_items(missing)
                ELSE <<>>)
            \o (IF Len(forbidden) > 0
                THEN <<[kind |-> "forbidden_header", penalty |-> Len(forbidden) * 2]>>
                     \o [i \in 1..Len(forbidden) |-> [kind |-> "item", text |-> forbidden[i]]]
                ELSE <<>>)
            \o <<[kind |-> "feedback", text |-> dict_get(logic, "feedback", "")],
                 [kind |-> "blank"]>>
            \o <<[kind |-> "clarity", grade |-> dict_get(clarity, "grade", "-"),
                  score |-> dict_get(clarity, "score", 0)],
                 [kind |-> "dashes"],
                 [kind |-> "feedback", text |-> dict_get(clarity, "feedback", "")],
                 [kind |-> "blank"]>>
            \o <<[kind |-> "completeness", grade |-> dict_get(completeness, "grade", "-"),
                  score |-> dict_get(completeness, "score", 0)],
                 [kind |-> "dashes"],
                 [kind |-> "feedback", text |-> dict_get(completeness, "feedback", "")],
                 [kind |-> "blank"]>>
            \o <<[kind |-> "overall_header"], [kind |-> "rule"],
                 [kind |-> "overall", text |-> dict_get(r, "overall_feedback", "")],
                 [kind |-> "blank"], [kind |-> "rule"]>>

\* result dictionaries handed over by a caller: a full one with 11 matched keywords,
\* the same with any of its entries left out, and with sections that are {}
FullDict ==
    [kind |-> "dict",
     total |-> Points(82),
     logic |-> [score |-> Points(40), matched |-> Rep(<<"a">>, 11), missing |-> <<>>,
                found_forbidden |-> <<>>, feedback |-> "ok"],
     clarity |-> [grade |-> "B", score |-> Points(21), feedback |-> "ok"],
     completeness |-> [grade |-> "B", score |-> Points(21), feedback |-> "ok"],
     overall_feedback |-> "ok"]

CallerDicts ==
    {[k \in K \cup {"kind"} |-> FullDict[k]] :
        K \in SUBSET {"total", "logic", "clarity", "completeness", "overall_feedback"}}
    \cup {[FullDict EXCEPT !.logic = <<>>],
          [FullDict EXCEPT !.clarity = <<>>],
          [FullDict EXCEPT !.completeness = <<>>],
          [FullDict EXCEPT !.logic = <<>>, !.clarity = <<>>, !.completeness = <<>>],
          [FullDict EXCEPT !.logic = [score |-> 0, matched |-> <<>>, missing |-> <<>>,
                                      found_forbidden |-> <<>>, feedback |-> ""]]}

\* the grader is idle with its arguments, or a caller holds a dictionary to display
InitDisplay ==
    /\ fm_off
    /\ calls_off
    /\ \/ /\ pc = "idle"
          /\ grader = "none"
          /\ result = NoResult
          /\ \/ answer_text \in ShortTexts /\ criteria \in MatchCriteria
             \/ \E sc \in Scenarios : answer_text = sc[1] /\ criteria = sc[2]
          /\ api_available \in (IF <<answer_text, criteria>> \in Scenarios
                                THEN BOOLEAN ELSE {FALSE})
       \/ /\ pc = "returned"
          /\ grader = "caller"
          /\ result \in CallerDicts
          /\ answer_text = <<>>
          /\ criteria = NoCriteria
          /\ api_available = FALSE

\* AutoGradingSystemV2.format_result_for_display(result); the transcript is kept
\* with the dictionary it was made from
FormatResultForDisplay ==
    /\ pc = "returned"
    /\ result' = [kind |-> "transcript", lines |-> format_result_for_display(result),
                  of |-> result]
    /\ pc' = "displayed"
    /\ UNCHANGED <<grader, answer_text, criteria, api_available>>
    /\ UNCHANGED fm_vars
    /\ UNCHANGED call_vars

NextDisplay ==
    \/ GradeWithModelAnswer
    \/ FormatResultForDisplay

SpecDisplay == InitDisplay /\ [][NextDisplay]_vars

----------------------------------------------------------------------------
(* One AutoGradingSystem instance used by several grade_answer invocations,   *)
(* interleaved statement by statement (src/auto_grading_system.py)            *)

NumCalls == 2

Invocations == 1..NumCalls

\* the (answer_text, criteria) pairs the invocations are called with
CallInputs ==
    {<<<<"a", SP, "b">>, CriteriaOf(<<<<"a", "b">>, <<"b">>>>, <<<<"a">>>>, DefaultMaxima)>>,
     <<<<"b">>, CriteriaOf(<<<<"a", "b">>, <<"b">>>>, <<<<"a">>>>, DefaultMaxima)>>,
     <<<<"a", SP, "b">>, CriteriaOf(<<<<"b">>>>, <<>>, <<7, 20, 50>>)>>}

NoEvaluation == [grade |-> "", feedback |-> <<>>, score |-> 0]

\* a frame before its first call
IdleFrame ==
    [pc |-> "idle", answer_text |-> <<>>, criteria |-> NoCriteria, args |-> <<>>,
     overlapped |-> FALSE, normalized_answer |-> <<>>, kw_i |-> 0,
     cls_keyword_matches |-> <<>>, cls_forbidden_found |-> <<>>,
     logic_score |-> 0, keyword_matches |-> <<>>, forbidden_found |-> <<>>,
     clarity |-> NoEvaluation, completeness |-> NoEvaluation,
     clarity_score |-> 0, completeness_score |-> 0, result |-> NoResult]

\* line 189: a call binds the parameters in a new frame
new_frame(inp) ==
    [IdleFrame EXCEPT !.pc = "called", !.answer_text = inp[1], !.criteria = inp[2],
                      !.args = inp]

\* the frame holding keyword_matches and forbidden_found of invocation i's call of
\* calculate_logic_score: lines 66 and 75 bind them as locals
locals_of_shared(i) == 1
locals_of(i) == i

\* criteria.max_* * self.grade_to_score[grade], lines 208-209, reading the table tbl
points_from(tbl, max_points, grade) == max_points * tbl[grade] * (Scale \div 100)

InFlight(f) == f.pc \notin {"idle", "returned"}

\* whether invocation i runs while another invocation is between call and return
Overlaps(i) == frames[i].overlapped \/ \E j \in Invocations \ {i} : InFlight(frames[j])

InitCalls ==
    /\ grade_off
    /\ fm_off
    /\ self_grade_to_score = grade_to_score
    /\ frames = [i \in Invocations |-> IdleFrame]
    /\ call_log = {}

\* line 189: grade_answer(answer_text, criteria) is called
Call(i) ==
    /\ frames[i].pc \in {"idle", "returned"}
    /\ \E inp \in CallInputs : frames' = [frames EXCEPT ![i] = new_frame(inp)]
    /\ UNCHANGED <<self_grade_to_score, call_log>>
    /\ UNCHANGED grade_vars
    /\ UNCHANGED fm_vars

\* lines 63-66: normalized_answer = answer_text.replace(' ', ''); keyword_matches = {}
LogicStart(i) ==
    /\ frames[i].pc = "called"
    /\ frames' = [frames EXCEPT
                    ![i].pc = "keywords",
                    ![i].overlapped = Overlaps(i),
                    ![i].normalized_answer = Remove(frames[i].answer_text, SP),
                    ![i].kw_i = 0,
                    ![locals_of(i)].cls_keyword_matches = <<>>]
    /\ UNCHANGED <<self_grade_to_score, call_log>>
    /\ UNCHANGED grade_vars
    /\ UNCHANGED fm_vars

\* lines 67-72: one iteration of "for keyword in criteria.required_keywords"
LogicKeyword(i) ==
    /\ frames[i].pc = "keywords"
    /\ frames[i].kw_i < Len(frames[i].criteria.required_keywords)
    /\ frames' = [frames EXCEPT
                    ![i].kw_i = @ + 1,
                    ![i].overlapped = Overlaps(i),
                    ![locals_of(i)].cls_keyword_matches =
                        match_keywords(<<frames[i].criteria.required_keywords[frames[i].kw_i + 1]>>,
                                       1, frames[i].normalized_answer,
                                       frames[locals_of(i)].cls_keyword_matches)]
    /\ UNCHANGED <<self_grade_to_score, call_log>>
    /\ UNCHANGED grade_vars
    /\ UNCHANGED fm_vars

\* lines 75-79: forbidden_found = [] and the loop over criteria.forbidden_keywords
LogicForbidden(i) ==
    /\ frames[i].pc = "keywords"
    /\ frames[i].kw_i = Len(frames[i].criteria.required_keywords)
    /\ frames' = [frames EXCEPT
                    ![i].pc = "forbidden",
                    ![i].overlapped = Overlaps(i),
                    ![locals_of(i)].cls_forbidden_found =
                        find_forbidden(frames[i].criteria.forbidden_keywords,
                                       frames[i].normalized_answer)]
    /\ UNCHANGED <<self_grade_to_score, call_log>>
    /\ UNCHANGED grade_vars
    /\ UNCHANGED fm_vars

\* lines 82-89 and 197: the final score; the triple is bound in grade_answer
LogicScore(i) ==
    /\ frames[i].pc = "forbidden"
    /\ LET km == frames[locals_of(i)].cls_keyword_matches
           ff == frames[locals_of(i)].cls_forbidden_found
       IN frames' = [frames EXCEPT
                       ![i].pc = "logic",
                       ![i].overlapped = Overlaps(i),
                       ![i].logic_score = logic_final_score(frames[i].criteria, km, ff),
                       ![i].keyword_matches = km,
                       ![i].forbidden_found = ff]
    /\ UNCHANGED <<self_grade_to_score, call_log>>
    /\ UNCHANGED grade_vars
    /\ UNCHANGED fm_vars

\* line 200: clarity_grade, clarity_feedback = self.evaluate_clarity(answer_text)
Clarity(i) ==
    /\ frames[i].pc = "logic"
    /\ frames' = [frames EXCEPT
                    ![i].pc = "clarity",
                    ![i].overlapped = Overlaps(i),
                    ![i].clarity = evaluate_clarity(frames[i].answer_text)]
    /\ UNCHANGED <<self_grade_to_score, call_log>>
    /\ UNCHANGED grade_vars
    /\ UNCHANGED fm_vars

\* line 203: completeness_grade, completeness_feedback = self.evaluate_completeness(...)
Completeness(i) ==
    /\ frames[i].pc = "clarity"
    /\ frames' = [frames EXCEPT
                    ![i].pc = "completeness",
                    ![i].overlapped = Overlaps(i),
                    ![i].completeness = evaluate_completeness(frames[i].answer_text)]
    /\ UNCHANGED <<self_grade_to_score, call_log>>
    /\ UNCHANGED grade_vars
    /\ UNCHANGED fm_vars

\* lines 208-209: the two reads of self.grade_to_score
ScalePoints(i) ==
    /\ frames[i].pc = "completeness"
    /\ frames' = [frames EXCEPT
                    ![i].pc = "scaled",
                    ![i].overlapped = Overlaps(i),
                    ![i].clarity_score =
                        points_from(self_grade_to_score,
                                    frames[i].criteria.max_clarity_score,
                                    frames[i].clarity.grade),
                    ![i].completeness_score =
                        points_from(self_grade_to_score,
                                    frames[i].criteria.max_completeness_score,
                                    frames[i].completeness.grade)]
    /\ UNCHANGED <<self_grade_to_score, call_log>>
    /\ UNCHANGED grade_vars
    /\ UNCHANGED fm_vars

\* lines 206 and 212-238: the total, the feedback list and the returned GradingResult
Return(i) ==
    /\ frames[i].pc = "scaled"
    /\ LET f == frames[i]
           r == build_result(f.criteria,
                             [final_score |-> f.logic_score,
                              keyword_matches |-> f.keyword_matches,
                              forbidden_found |-> f.forbidden_found],
                             f.clarity, f.completeness,
                             f.clarity_score, f.completeness_score)
       IN /\ frames' = [frames EXCEPT ![i].pc = "returned", ![i].result = r]
          /\ call_log' = call_log \cup {[args |-> f.args, result |-> r]}
    /\ UNCHANGED self_grade_to_score
    /\ UNCHANGED grade_vars
    /\ UNCHANGED fm_vars

NextCalls ==
    \E i \in Invocations :
        \/ Call(i)
        \/ LogicStart(i)
        \/ LogicKeyword(i)
        \/ LogicForbidden(i)
        \/ LogicScore(i)
        \/ Clarity(i)
        \/ Completeness(i)
        \/ ScalePoints(i)
        \/ Return(i)

SpecCalls == InitCalls /\ [][NextCalls]_vars

----------------------------------------------------------------------------
(* Notions the properties are stated in, defined apart from the code's operators *)

AGReturned == pc = "returned" /\ grader = "AutoGradingSystem"
BGReturned == pc = "returned" /\ grader = "BasicGrader"

StripSpaces(s) == SelectSeq(s, LAMBDA x : x # " ")

\* sub is a contiguous substring of s
IsSubstring(sub, s) ==
    \E i \in 1..(Len(s) + 1) : \E n \in 0..(Len(s) - i + 1) : SubSeq(s, i, i + n - 1) = sub

\* length of a longest common subsequence of a and b
RECURSIVE LcsLen(_, _)
LcsLen(a, b) ==
    IF a = <<>> \/ b = <<>> THEN 0
    ELSE IF Head(a) = Head(b) THEN 1 + LcsLen(Tail(a), Tail(b))
    ELSE LET x == LcsLen(Tail(a), b)
             y == LcsLen(a, Tail(b))
         IN IF x >= y THEN x ELSE y

\* the multiplier table S=1.00, A=0.85, B=0.70, C=0.55, D=0.40, in hundredths
Multiplier(g) ==
    CASE g = "S" -> 100 [] g = "A" -> 85 [] g = "B" -> 70 [] g = "C" -> 55 [] g = "D" -> 40

\* hundredths of a point, as score units
Hundredths(n) == n * (Scale \div 100)

Range(xs) == {xs[i] : i \in 1..Len(xs)}

\* the required keywords the exact scorer matches and the forbidden entries it detects
MatchedKeywords(t, c) ==
    {k \in Range(c.required_keywords) : IsSubstring(StripSpaces(k), StripSpaces(t))}
DetectedForbidden(t, c) ==
    {i \in 1..Len(c.forbidden_keywords) :
        IsSubstring(StripSpaces(c.forbidden_keywords[i]), StripSpaces(t))}

\* the points a section header of the feedback reports
HeaderPoints(kind) ==
    LET i == CHOOSE j \in 1..Len(result.feedback) : result.feedback[j].kind = kind
    IN result.feedback[i].points

HasDefaultMaxima ==
    /\ criteria.max_logic_score = 40
    /\ criteria.max_clarity_score = 30
    /\ criteria.max_completeness_score = 30

----------------------------------------------------------------------------
(* Properties *)

\* C1: the GradingResult of AutoGradingSystem.grade_answer satisfies
\* total_score = logic_score + max_clarity_score * mult(clarity grade)
\*               + max_completeness_score * mult(completeness grade),
\* mult being the table S=1.00, A=0.85, B=0.70, C=0.55, D=0.40.
C1_TotalScoreInvariant ==
    AGReturned =>
        result.total_score =
            result.logic_score
            + Hundredths(criteria.max_clarity_score * Multiplier(result.clarity_score))
            + Hundredths(criteria.max_completeness_score * Multiplier(result.completeness_score))

\* C1 witness: a result with two different grades, a positive logic score and maxima
\* that differ from each other
C1_Witness ==
    /\ AGReturned
    /\ result.clarity_score # result.completeness_score
    /\ result.logic_score > 0
    /\ criteria.max_clarity_score # criteria.max_completeness_score

\* C2: logic_score = max(0, max_logic_score * (matched keywords / required keywords)
\* - 2 * detected forbidden terms), the matched keywords being the distinct required
\* keywords found (the entries of keyword_matches); one more detected forbidden term
\* lowers the score by exactly 2 down to the floor 0; 4 of 10 keywords with no
\* forbidden term give 16.0 and 10 of 10 with one forbidden term give 38.0.
C2_LogicScoreFormula ==
    (AGReturned /\ Len(criteria.required_keywords) > 0) =>
        LET m == Cardinality(MatchedKeywords(answer_text, criteria))
            n == Len(criteria.required_keywords)
            k == Cardinality(DetectedForbidden(answer_text, criteria))
            forb == criteria.forbidden_keywords
            without(j) == [criteria EXCEPT !.forbidden_keywords =
                              SubSeq(forb, 1, j - 1) \o SubSeq(forb, j + 1, Len(forb))]
        IN /\ result.logic_score =
                  Max(0, (Points(criteria.max_logic_score) * m) \div n - Points(2 * k))
           /\ (Points(criteria.max_logic_score) * m) % n = 0
           /\ \A j \in 1..Len(forb) :
                LET prev == calculate_logic_score(answer_text, without(j)).final_score
                IN result.logic_score =
                       IF j \in DetectedForbidden(answer_text, criteria)
                       THEN Max(0, prev - Points(2)) ELSE prev
           /\ (HasDefaultMaxima /\ n = 10 /\ m = 4 /\ k = 0) => result.logic_score = Points(16)
           /\ (HasDefaultMaxima /\ n = 10 /\ m = 10 /\ k = 1) => result.logic_score = Points(38)

\* C2 witness: Scenario C, ten of ten keywords and one forbidden term, scored 38.0
C2_Witness ==
    /\ AGReturned
    /\ criteria.required_keywords = ScenarioKeywords
    /\ Len(result.keyword_matches) = 10
    /\ Len(result.forbidden_found) = 1
    /\ result.logic_score = Points(38)

\* C3: for every answer and criteria with max_logic_score >= 0, keyword lists with
\* duplicates and empty lists included, 0 <= logic_score <= max_logic_score.
C3_LogicScoreBounded ==
    (AGReturned /\ criteria.max_logic_score >= 0) =>
        /\ result.logic_score >= 0
        /\ result.logic_score <= Points(criteria.max_logic_score)
        /\ Len(result.keyword_matches) <= Len(criteria.required_keywords)

\* C3 witness: a required keyword listed twice and found, a forbidden term detected
C3_Witness ==
    /\ AGReturned
    /\ Len(criteria.required_keywords) = 2
    /\ criteria.required_keywords[1] = criteria.required_keywords[2]
    /\ Len(result.keyword_matches) = 1
    /\ Len(result.forbidden_found) > 0
    /\ result.logic_score > 0

\* C4: if normalize(keyword) is a contiguous substring of normalize(text) then
\* fuzzy_match(keyword, text) returns true, whatever the keyword's length.
C4_ExactMatchGuarantee ==
    (fm_returned /\ IsSubstring(normalize_text(keyword), normalize_text(text))) =>
        fm_ret = TRUE

\* C4 witness: a keyword shorter than 3 after normalization, changed by the
\* normalization, found in a text it does not start
C4_Witness ==
    /\ fm_returned
    /\ fm_ret = TRUE
    /\ Len(norm_kw) \in 1..2
    /\ norm_kw # keyword
    /\ ~OccursAt(norm_kw, norm_text, 0)

\* C5: a keyword whose normalized form is shorter than 3 matches if and only if
\* that form is a contiguous substring of the normalized text, and the subsequence
\* scan is never entered for it.
C5_ShortKeywordGuard ==
    (fm_pc # "called" /\ Len(normalize_text(keyword)) < 3) =>
        /\ fm_pc \notin {"scan", "returned_scan"}
        /\ fm_returned =>
              (fm_ret <=> IsSubstring(normalize_text(keyword), normalize_text(text)))

\* C5 witness: a two-character keyword whose characters occur in order in the text
\* but not side by side is rejected
C5_Witness ==
    /\ fm_pc = "returned_short"
    /\ fm_ret = FALSE
    /\ Len(norm_kw) = 2
    /\ LcsLen(norm_kw, norm_text) = 2

\* C6: for a keyword of normalized length n >= 3, if the normalized keyword and
\* the normalized text share an ordered common subsequence of length at least
\* max(3, floor(0.7 * n)) then fuzzy_match returns true.
C6_FuzzyAcceptance ==
    (fm_returned /\ Len(normalize_text(keyword)) >= 3) =>
        LET nkw == normalize_text(keyword)
            need == Max(3, (7 * Len(nkw)) \div 10)
        IN LcsLen(nkw, normalize_text(text)) >= need => fm_ret = TRUE

\* the same normal forms, entry by entry
SameNormalForms(xs, ys) ==
    /\ Len(xs) = Len(ys)
    /\ \A i \in 1..Len(xs) : normalize_text(xs[i]) = normalize_text(ys[i])

MatchedIndices(keywords, matched) == {i \in 1..Len(keywords) : keywords[i] \in Range(matched)}

\* C7, AutoGradingSystem.calculate_logic_score: an answer, or keyword and forbidden
\* lists, with the same normal forms give the same matches, detections and score
C7_ExactScorerInsensitive ==
    AGReturned =>
        /\ \A t2 \in ShortTexts :
              normalize_text(t2) = normalize_text(answer_text) =>
                  LET r2 == calculate_logic_score(t2, criteria)
                  IN /\ r2.final_score = result.logic_score
                     /\ DictKeys(r2.keyword_matches) = DictKeys(result.keyword_matches)
                     /\ r2.forbidden_found = result.forbidden_found
        /\ \A c2 \in MatchCriteria :
              (/\ SameNormalForms(c2.required_keywords, criteria.required_keywords)
               /\ SameNormalForms(c2.forbidden_keywords, criteria.forbidden_keywords)
               /\ c2.max_logic_score = criteria.max_logic_score) =>
                  LET r2 == calculate_logic_score(answer_text, c2)
                  IN /\ r2.final_score = result.logic_score
                     /\ MatchedIndices(c2.required_keywords, DictKeys(r2.keyword_matches))
                            = MatchedIndices(criteria.required_keywords,
                                             DictKeys(result.keyword_matches))
                     /\ MatchedIndices(c2.forbidden_keywords, r2.forbidden_found)
                            = MatchedIndices(criteria.forbidden_keywords,
                                             result.forbidden_found)

\* C7, BasicGrader.grade_answer: the same for the fuzzy scorer
C7_FuzzyScorerInsensitive ==
    BGReturned =>
        /\ \A t2 \in ShortTexts :
              normalize_text(t2) = normalize_text(answer_text) =>
                  LET r2 == basic_grade_answer(t2, criteria.required_keywords,
                                               criteria.forbidden_keywords)
                  IN /\ r2.kind = "dict"
                     /\ r2.logic = result.logic
        /\ \A c2 \in MatchCriteria :
              (/\ SameNormalForms(c2.required_keywords, criteria.required_keywords)
               /\ SameNormalForms(c2.forbidden_keywords, criteria.forbidden_keywords)) =>
                  LET r2 == basic_grade_answer(answer_text, c2.required_keywords,
                                               c2.forbidden_keywords)
                  IN /\ r2.kind = "dict"
                     /\ r2.logic.score = result.logic.score
                     /\ MatchedIndices(c2.required_keywords, r2.logic.matched)
                            = MatchedIndices(criteria.required_keywords, result.logic.matched)
                     /\ MatchedIndices(c2.forbidden_keywords, r2.logic.found_forbidden)
                            = MatchedIndices(criteria.forbidden_keywords,
                                             result.logic.found_forbidden)

\* C7: keyword and forbidden-term matching in logic scoring is whitespace-, case-
\* and bracket-insensitive for both scorers: replacing the answer or a term by a
\* string with the same normalized form leaves the matched keywords, the detected
\* forbidden terms and logic_score unchanged.
C7_NormalizationInsensitive == C7_ExactScorerInsensitive /\ C7_FuzzyScorerInsensitive

\* the logic score a grader's result reports
LogicScoreOf(r) == IF r.kind = "GradingResult" THEN r.logic_score ELSE r.logic.score

\* C8: with an empty required-keyword list every grader entry point returns without
\* an exception and reports logic_score = 0, whatever the answer and forbidden list.
C8_EmptyKeywordsScoreZero ==
    (pc # "idle" /\ criteria.required_keywords = <<>>) =>
        /\ pc = "returned"
        /\ LogicScoreOf(result) = 0

\* C9: neither evaluate_clarity nor evaluate_completeness returns grade S: both
\* scores start at 85 and only decrease, and S needs 90.
C9_GradeSUnreachable ==
    AGReturned =>
        /\ result.clarity_score # "S"
        /\ result.completeness_score # "S"
        /\ evaluate_clarity(answer_text).score <= 85
        /\ evaluate_completeness(answer_text).score <= 85

\* C9 witness: an answer on which no deduction fires in either evaluator
C9_Witness ==
    /\ AGReturned
    /\ evaluate_clarity(answer_text).feedback = <<>>
    /\ evaluate_completeness(answer_text).feedback = <<>>
    /\ result.clarity_score = "A"
    /\ result.completeness_score = "A"

\* C10: with the default maxima 40/30/30 the clarity points and the completeness
\* points of grade_answer each lie in [12, 30] and total_score lies in [24, 100].
C10_DefaultBounds ==
    (AGReturned /\ HasDefaultMaxima) =>
        /\ HeaderPoints("clarity_header") >= Points(12)
        /\ HeaderPoints("clarity_header") <= Points(30)
        /\ HeaderPoints("completeness_header") >= Points(12)
        /\ HeaderPoints("completeness_header") <= Points(30)
        /\ result.total_score >= Points(24)
        /\ result.total_score <= Points(100)

\* C10 witness: the lowest completeness grade, worth exactly 12 points
C10_Witness ==
    /\ AGReturned
    /\ HasDefaultMaxima
    /\ result.completeness_score = "D"
    /\ HeaderPoints("completeness_header") = Points(12)

\* every required keyword occurs in the answer as it is written
AllRequiredVerbatim ==
    \A i \in 1..Len(criteria.required_keywords) :
        IsSubstring(criteria.required_keywords[i], answer_text)

\* C11: for any non-empty required-keyword list, if every required keyword occurs
\* verbatim in the answer and no forbidden term is detected, grade_answer returns
\* logic_score = max_logic_score; if moreover no clarity and no completeness
\* deduction fires, both grades are A and
\* total_score = max_logic_score + 0.85 * max_clarity_score + 0.85 * max_completeness_score.
C11_FullMarks ==
    (/\ AGReturned
     /\ Len(criteria.required_keywords) > 0
     /\ AllRequiredVerbatim
     /\ DetectedForbidden(answer_text, criteria) = {}) =>
        /\ result.logic_score = Points(criteria.max_logic_score)
        /\ (/\ evaluate_clarity(answer_text).feedback = <<>>
            /\ evaluate_completeness(answer_text).feedback = <<>>) =>
                /\ result.clarity_score = "A"
                /\ result.completeness_score = "A"
                /\ result.total_score =
                       Points(criteria.max_logic_score)
                       + (Points(criteria.max_clarity_score) * 85) \div 100
                       + (Points(criteria.max_completeness_score) * 85) \div 100

\* the grades strictly below A
BelowA == {"B", "C", "D"}

\* the seven fields of a GradingResult
GradingResultFields ==
    {"logic_score", "clarity_score", "completeness_score", "total_score",
     "feedback", "keyword_matches", "forbidden_found"}

\* C12: grade_answer('', criteria) raises no exception and returns a complete
\* result whose clarity grade and completeness grade are both strictly below A.
C12_EmptyAnswerLowGrades ==
    (grader = "AutoGradingSystem" /\ answer_text = <<>>) =>
        /\ pc = "returned"
        /\ GradingResultFields \subseteq DOMAIN result
        /\ result.clarity_score \in BelowA
        /\ result.completeness_score \in BelowA

\* the field set of a grading result: total, logic score, clarity, completeness,
\* matched-keyword data and forbidden list
ResultComplete(r) ==
    IF r.kind = "GradingResult" THEN GradingResultFields \subseteq DOMAIN r
    ELSE /\ {"total", "logic", "clarity", "completeness"} \subseteq DOMAIN r
         /\ {"score", "matched", "found_forbidden"} \subseteq DOMAIN r.logic
         /\ {"grade", "score"} \subseteq DOMAIN r.clarity
         /\ {"grade", "score"} \subseteq DOMAIN r.completeness

\* C13: every call of AutoGradingSystem.grade_answer and of
\* AutoGradingSystemV2.grade_with_model_answer, on the API success path, the API
\* call/parse failure path and the fallback to _basic_grading, returns a result
\* carrying the full field set, never a partial one.
C13_CompleteResult ==
    (pc # "idle" /\ grader \in {"AutoGradingSystem", "AutoGradingSystemV2", "ClaudeAPIClient"}) =>
        /\ pc = "returned"
        /\ ResultComplete(result)

\* C14: on one AutoGradingSystem instance any two grade_answer calls with the same
\* (answer_text, criteria), in any order and whatever calls with other inputs ran
\* before or between them, return identical results (all seven fields); no call
\* changes the criteria it was given or the grade-to-multiplier table.
C14_Determinism ==
    /\ \A e1, e2 \in call_log : e1.args = e2.args => e1.result = e2.result
    /\ \A i \in DOMAIN frames :
          frames[i].pc # "idle" =>
              /\ frames[i].answer_text = frames[i].args[1]
              /\ frames[i].criteria = frames[i].args[2]
    /\ self_grade_to_score = grade_to_score

\* C14 witness: two calls with the same arguments have returned, and so has a call
\* with other arguments
C14_Witness ==
    /\ frames # <<>>
    /\ \E i, j \in DOMAIN frames :
          /\ i # j
          /\ frames[i].pc = "returned" /\ frames[j].pc = "returned"
          /\ frames[i].args = frames[j].args
          /\ frames[i].result = frames[j].result
          /\ \E e \in call_log : e.args # frames[i].args /\ e.result # frames[i].result

\* C15: grade_answer invocations interleaved statement by statement on the same
\* instance, without locking, each return exactly the result the call returns when
\* run alone; the shared grade_to_score is never written.
C15_ConcurrentSafety ==
    /\ \A i \in DOMAIN frames :
          frames[i].pc = "returned" =>
              frames[i].result = grade_answer(frames[i].args[1], frames[i].args[2])
    /\ \A i \in DOMAIN frames :
          frames[i].pc \in {"logic", "clarity", "completeness", "scaled"} =>
              LET logic == calculate_logic_score(frames[i].args[1], frames[i].args[2])
              IN /\ frames[i].logic_score = logic.final_score
                 /\ frames[i].keyword_matches = logic.keyword_matches
                 /\ frames[i].forbidden_found = logic.forbidden_found
    /\ self_grade_to_score = grade_to_score

\* C15 witness: an invocation has returned that ran while another invocation, with
\* other arguments, was between its call and its return
C15_Witness ==
    \E i, j \in DOMAIN frames :
        /\ frames[i].pc = "returned"
        /\ frames[i].overlapped
        /\ InFlight(frames[j])
        /\ frames[j].overlapped
        /\ frames[j].args # frames[i].args
        /\ frames[i].result = grade_answer(frames[i].args[1], frames[i].args[2])

\* the lines of a text, told apart by the positions of its newlines
NewlinesOf(t) == {i \in 1..Len(t) : t[i] = NL}
\* a line starts at position 1 and after every newline, and ends before the next
\* newline or with the text; its number is one more than the newlines before it
LineStarts(t) == {1} \cup {p + 1 : p \in NewlinesOf(t)}
LineEnd(t, s) ==
    LET later == {p \in NewlinesOf(t) : p >= s}
    IN IF later = {} THEN Len(t) ELSE (CHOOSE p \in later : \A q \in later : p <= q) - 1
LineNumber(t, s) == Cardinality({p \in NewlinesOf(t) : p < s}) + 1

KindsOf(fb) == [i \in 1..Len(fb) |-> fb[i].kind]
HasKind(fb, kind) == \E i \in 1..Len(fb) : fb[i].kind = kind

\* the first line has a length outside [1, 21]
TitleCheckFails(t) == LineEnd(t, 1) < 1 \/ LineEnd(t, 1) > 21

\* C16: evaluate_completeness deducts 5 points, with one feedback entry, exactly when
\* the first line of the answer (the text before the first newline, or the whole
\* text) has a length outside [1, 21]; an empty first line is deducted too.
C16_TitleCheck ==
    AGReturned =>
        LET r == evaluate_completeness(answer_text)
            fails == TitleCheckFails(answer_text)
        IN /\ HasKind(result.feedback, "no_title") <=> fails
           /\ Cardinality({i \in 1..Len(r.feedback) : r.feedback[i].kind = "no_title"})
                  = (IF fails THEN 1 ELSE 0)
           /\ r.score = 85 - (IF fails THEN 5 ELSE 0)
                           - (IF HasKind(r.feedback, "no_sections") THEN 10 ELSE 0)
                           - (IF HasKind(r.feedback, "no_subsections") THEN 5 ELSE 0)
                           - (IF HasKind(r.feedback, "too_short") THEN 10 ELSE 0)
           /\ (answer_text = <<>> \/ answer_text[1] = NL) => fails

\* C16 witness: an answer that starts with a newline is deducted for its title
C16_Witness ==
    /\ AGReturned
    /\ Len(answer_text) > 1
    /\ answer_text[1] = NL
    /\ HasKind(result.feedback, "no_title")

\* the 1-based numbers of the lines with more than 35 characters other than spaces
OffendingLines(t) ==
    {LineNumber(t, s) :
        s \in {x \in LineStarts(t) : Cardinality({i \in x..LineEnd(t, x) : t[i] # " "}) > 35}}

\* the n smallest elements of a set of numbers, ascending
RECURSIVE Smallest(_, _)
Smallest(S, n) ==
    IF n = 0 \/ S = {} THEN <<>>
    ELSE LET m == CHOOSE x \in S : \A y \in S : x <= y
         IN <<m>> \o Smallest(S \ {m}, n - 1)

\* C17: evaluate_clarity deducts 5 points, once, if and only if at least one line has
\* more than 35 characters after its spaces are removed, and then reports the first
\* 3 offending line numbers at most, ascending; when this is the only clarity
\* deduction the score is 80 and the grade is A.
C17_LongLineRule ==
    AGReturned =>
        LET r == evaluate_clarity(answer_text)
            off == OffendingLines(answer_text)
            entries == {i \in 1..Len(r.feedback) : r.feedback[i].kind = "long_lines"}
        IN /\ Cardinality(entries) = (IF off = {} THEN 0 ELSE 1)
           /\ \A i \in entries : r.feedback[i].lines = Smallest(off, 3)
           /\ r.score = 85 - (IF off = {} THEN 0 ELSE 5)
                           - (IF HasKind(r.feedback, "repetition") THEN 10 ELSE 0)
                           - (IF HasKind(r.feedback, "keyword_listing") THEN 10 ELSE 0)
           /\ KindsOf(r.feedback) = <<"long_lines">> =>
                  r.score = 80 /\ result.clarity_score = "A"

\* C17 witness: four lines are too long, the first three are reported, and nothing
\* else is deducted
C17_Witness ==
    /\ AGReturned
    /\ Cardinality(OffendingLines(answer_text)) > 3
    /\ evaluate_clarity(answer_text).feedback = <<[kind |-> "long_lines", lines |-> <<1, 2, 3>>]>>
    /\ result.clarity_score = "A"

\* the characters normalization removes, and the positions of t that it keeps
RemovedChars == {" ", "\t", "\n", "(", ")", "[", "]"}
KeptPositions(t) == {i \in 1..Len(t) : t[i] \notin RemovedChars}

\* n is t without its removed characters, the others lowercased and in their order
\* (a capital sigma has two lower-case forms)
IsNormalFormOf(n, t) ==
    /\ Len(n) = Cardinality(KeptPositions(t))
    /\ \A i \in KeptPositions(t) :
          LET j == Cardinality({k \in KeptPositions(t) : k <= i})
          IN n[j] \in (CASE t[i] = "A" -> {"a"} [] t[i] = "B" -> {"b"}
                           [] t[i] = "Σ" -> {"σ", "ς"} [] OTHER -> {t[i]})

\* C18: normalize_text removes every space, tab, newline and ( ) [ ] character,
\* lowercases what remains and keeps its order, returns for every input, and is
\* idempotent: normalize_text(normalize_text(t)) = normalize_text(t).
C18_NormalizeText ==
    fm_pc \notin {"off", "called"} =>
        /\ IsNormalFormOf(norm_kw, keyword)
        /\ IsNormalFormOf(norm_text, text)
        /\ normalize_text(norm_kw) = norm_kw
        /\ normalize_text(norm_text) = norm_text

\* C18 witness: a keyword with a tab and a newline and a text with an upper-case
\* letter and parentheses have been normalized
C18_Witness ==
    /\ fm_pc = "normalized"
    /\ keyword = <<"a", "\t", "b", "\n", "a">>
    /\ text = <<"A", "(", "b", ")">>
    /\ norm_kw = <<"a", "b", "a">>
    /\ norm_text = <<"a", "b">>

\* max(3, floor(0.7 * n))
RequiredCount(n) == IF (7 * n) \div 10 >= 3 THEN (7 * n) \div 10 ELSE 3

\* the scan is entered only when the exact path failed and n >= 3, with counter and
\* cursor 0, and its result is the comparison of the final counter with the threshold
ScanEntryAndResult ==
    /\ fm_pc \in {"scan", "returned_scan"} =>
          /\ ~IsSubstring(norm_kw, norm_text)
          /\ Len(norm_kw) >= 3
          /\ kw_idx = 0 => (matched_chars = 0 /\ text_idx = 0)
    /\ (fm_returned /\ ~IsSubstring(norm_kw, norm_text) /\ Len(norm_kw) >= 3) =>
          /\ fm_pc = "returned_scan"
          /\ kw_idx = Len(norm_kw)
          /\ fm_ret = (matched_chars >= RequiredCount(Len(norm_kw)))

\* one keyword character is consumed per step, in order: if it occurs at a position
\* p >= cursor, the counter grows by one and the cursor moves past the first such p;
\* otherwise neither changes
ScanStepRule ==
    (fm_pc = "scan" /\ fm_pc' = "scan") =>
        /\ kw_idx' = kw_idx + 1
        /\ norm_kw' = norm_kw /\ norm_text' = norm_text
        /\ LET found == {p \in text_idx..(Len(norm_text) - 1) :
                            norm_text[p + 1] = norm_kw[kw_idx + 1]}
           IN IF found = {}
              THEN matched_chars' = matched_chars /\ text_idx' = text_idx
              ELSE /\ matched_chars' = matched_chars + 1
                   /\ text_idx' = (CHOOSE p \in found : \A q \in found : p <= q) + 1

\* C19: when the exact path fails and the normalized keyword has length n >= 3,
\* fuzzy_match scans the keyword characters once, in order, with the cursor starting
\* at 0: a character found at position p >= cursor increments the counter and moves
\* the cursor to p + 1, a character not found changes neither; the result is true if
\* and only if the final counter is at least max(3, floor(0.7 * n)).
C19_SubsequenceScan == []ScanEntryAndResult /\ [][ScanStepRule]_vars

\* some word of two or more letters or digits occurs five times or more, a word
\* being a maximal run of letters and digits
RepetitionFires(t) ==
    LET starts == {i \in 1..Len(t) : IsWordChar(t[i]) /\ (i = 1 \/ ~IsWordChar(t[i - 1]))}
        EndOf(s) ==
            LET stops == {j \in s..Len(t) : ~IsWordChar(t[j])}
            IN IF stops = {} THEN Len(t)
               ELSE (CHOOSE j \in stops : \A k \in stops : j <= k) - 1
        runs == {<<s, EndOf(s)>> : s \in starts}
    IN \E r \in runs :
          /\ r[2] - r[1] >= 1
          /\ Cardinality({q \in runs : SubSeq(t, q[1], q[2]) = SubSeq(t, r[1], r[2])}) >= 5

\* more than half of the non-blank lines are shorter than 15 characters once their
\* leading and trailing whitespace is dropped
ListingFires(t) ==
    LET Inner(s) == {i \in s..LineEnd(t, s) : t[i] \notin {" ", "\t"}}
        nonblank == {s \in LineStarts(t) : Inner(s) # {}}
        short == {s \in nonblank :
                     \A i, j \in Inner(s) : j - i + 1 < 15}
    IN nonblank # {} /\ 2 * Cardinality(short) > Cardinality(nonblank)

\* the grade thresholds >= 90 S, >= 80 A, >= 70 B, >= 60 C, else D
ThresholdGrade(score) ==
    CASE score >= 90 -> "S"
      [] score >= 80 /\ score < 90 -> "A"
      [] score >= 70 /\ score < 80 -> "B"
      [] score >= 60 /\ score < 70 -> "C"
      [] score < 60 -> "D"

\* C20: evaluate_clarity computes score = 85 - 10 * [repetition] - 5 * [long line]
\* - 10 * [keyword listing], each deduction applied at most once and independently,
\* maps the score to a grade by >= 90 S, >= 80 A, >= 70 B, >= 60 C, else D, and
\* returns one reason per fired deduction, in the order repetition, long lines,
\* keyword listing (no reason exactly when no deduction fired).
C20_ClarityScoring ==
    AGReturned =>
        LET r == evaluate_clarity(answer_text)
            repetition == RepetitionFires(answer_text)
            long == OffendingLines(answer_text) # {}
            listing == ListingFires(answer_text)
            score == 85 - (IF repetition THEN 10 ELSE 0) - (IF long THEN 5 ELSE 0)
                        - (IF listing THEN 10 ELSE 0)
        IN /\ r.score = score
           /\ r.grade = ThresholdGrade(score)
           /\ result.clarity_score = ThresholdGrade(score)
           /\ KindsOf(r.feedback) =
                  (IF repetition THEN <<"repetition">> ELSE <<>>)
                  \o (IF long THEN <<"long_lines">> ELSE <<>>)
                  \o (IF listing THEN <<"keyword_listing">> ELSE <<>>)
           /\ r.feedback = <<>> <=> score = 85

\* C20 witness: all three deductions fire, the score is 60 and the grade C
C20_Witness ==
    /\ AGReturned
    /\ KindsOf(evaluate_clarity(answer_text).feedback)
           = <<"repetition", "long_lines", "keyword_listing">>
    /\ evaluate_clarity(answer_text).score = 60
    /\ result.clarity_score = "C"

\* the lines with a character other than a space or a tab, and those of them whose
\* stretch from the first to the last such character is shorter than 15
NonBlankStarts(t) ==
    {s \in LineStarts(t) : \E i \in s..LineEnd(t, s) : t[i] \notin {" ", "\t"}}
ShortStarts(t) ==
    {s \in NonBlankStarts(t) :
        \A i, j \in {k \in s..LineEnd(t, s) : t[k] \notin {" ", "\t"}} : j - i + 1 < 15}

\* C21: _is_keyword_listing is true if and only if there is at least one non-blank
\* line and the non-blank lines of stripped length < 15 are strictly more than half
\* of the non-blank lines; blank lines are not counted, exactly half does not
\* trigger, and a text with no non-blank line is not flagged.
C21_KeywordListingRule ==
    /\ (pc = "returned" /\ grader = "_is_keyword_listing") =>
          /\ result.value <=>
                 /\ NonBlankStarts(answer_text) # {}
                 /\ 2 * Cardinality(ShortStarts(answer_text))
                        > Cardinality(NonBlankStarts(answer_text))
          /\ NonBlankStarts(answer_text) = {} => ~result.value
    /\ (pc = "returned" /\ grader = "evaluate_clarity") =>
          (HasKind(result.feedback, "keyword_listing") <=>
              2 * Cardinality(ShortStarts(answer_text))
                  > Cardinality(NonBlankStarts(answer_text)))

\* C21 witness: exactly half of the non-blank lines are short, a blank line lies
\* between them, and the text is not flagged
C21_Witness ==
    /\ pc = "returned" /\ grader = "_is_keyword_listing"
    /\ Cardinality(LineStarts(answer_text)) > Cardinality(NonBlankStarts(answer_text))
    /\ Cardinality(NonBlankStarts(answer_text)) = 2
    /\ Cardinality(ShortStarts(answer_text)) = 1
    /\ ~result.value

\* some line starts with a digit 1-9 immediately followed by a period
SectionLine(t) ==
    \E s \in LineStarts(t) :
        /\ s + 1 <= Len(t)
        /\ t[s] \in {"1", "2", "3", "4", "5", "6", "7", "8", "9"}
        /\ t[s + 1] = "."
\* some line starts with the glyph
BoxLine(t) == \E s \in LineStarts(t) : s <= Len(t) /\ t[s] = "□"

\* C22: evaluate_completeness computes score = 85 - 5 * [title check fails]
\* - 10 * [no line starts with a digit 1-9 followed by a period]
\* - 5 * [no line starts with the glyph] - 10 * [fewer than 15 non-blank lines],
\* the two patterns being tested at the start of every line, and maps the score to
\* a grade by the thresholds of clarity.
C22_CompletenessScoring ==
    (pc = "returned" /\ grader = "evaluate_completeness") =>
        LET score == 85 - (IF TitleCheckFails(answer_text) THEN 5 ELSE 0)
                        - (IF ~SectionLine(answer_text) THEN 10 ELSE 0)
                        - (IF ~BoxLine(answer_text) THEN 5 ELSE 0)
                        - (IF Cardinality(NonBlankStarts(answer_text)) < 15 THEN 10 ELSE 0)
        IN /\ result.score = score
           /\ result.grade = ThresholdGrade(score)
           /\ HasKind(result.feedback, "no_sections") <=> ~SectionLine(answer_text)
           /\ HasKind(result.feedback, "no_subsections") <=> ~BoxLine(answer_text)
           /\ HasKind(result.feedback, "too_short")
                  <=> Cardinality(NonBlankStarts(answer_text)) < 15

\* C22 witness: the section pattern is found on a later line than the first, the
\* answer has exactly 15 non-blank lines, and neither is deducted
C22_Witness ==
    /\ pc = "returned" /\ grader = "evaluate_completeness"
    /\ Len(answer_text) > 1
    /\ ~(answer_text[1] \in {"1", "2", "3", "4", "5", "6", "7", "8", "9"} /\ answer_text[2] = ".")
    /\ SectionLine(answer_text)
    /\ Cardinality(NonBlankStarts(answer_text)) = 15
    /\ ~HasKind(result.feedback, "no_sections")
    /\ ~HasKind(result.feedback, "too_short")

\* the positions of the entries of a kind in a feedback sequence
PositionsOf(fb, kind) == {i \in 1..Len(fb) : fb[i].kind = kind}

ClarityReasonKinds == {"repetition", "long_lines", "keyword_listing"}
CompletenessReasonKinds == {"no_title", "no_sections", "no_subsections", "too_short"}

\* C23: in the feedback returned by grade_answer the logic header is the first entry
\* and the keyword-count line follows it; then come the clarity header followed by
\* all clarity reasons, then the completeness header followed by all completeness
\* reasons; the total line is the last entry; no clarity reason comes after the
\* completeness header and nothing follows the total line.
C23_FeedbackOrder ==
    AGReturned =>
        LET fb == result.feedback
            n == Len(fb)
            ch == PositionsOf(fb, "clarity_header")
            mh == PositionsOf(fb, "completeness_header")
            clarity == evaluate_clarity(answer_text).feedback
            completeness == evaluate_completeness(answer_text).feedback
        IN /\ n >= 5
           /\ fb[1].kind = "logic_header"
           /\ fb[2].kind = "keyword_count"
           /\ PositionsOf(fb, "logic_header") = {1}
           /\ PositionsOf(fb, "keyword_count") = {2}
           /\ Cardinality(ch) = 1 /\ Cardinality(mh) = 1
           /\ PositionsOf(fb, "total") = {n}
           /\ \A c \in ch, m \in mh :
                 /\ 2 < c /\ c < m /\ m < n
                 /\ \A i \in 3..(c - 1) : fb[i].kind \in {"found_keywords", "forbidden_found"}
                 /\ m = c + Len(clarity) + 1
                 /\ SubSeq(fb, c + 1, m - 1) = clarity
                 /\ SubSeq(fb, m + 1, m + Len(completeness)) = completeness
                 /\ m + Len(completeness) < n
                 /\ \A i \in (m + 1)..n : fb[i].kind \notin ClarityReasonKinds
                 /\ \A i \in 1..m : fb[i].kind \notin CompletenessReasonKinds

\* C23 witness: a returned feedback with clarity reasons and completeness reasons and
\* with the found-keywords and forbidden-term lines in the logic section
C23_Witness ==
    /\ AGReturned
    /\ PositionsOf(result.feedback, "found_keywords") # {}
    /\ PositionsOf(result.feedback, "forbidden_found") # {}
    /\ \E i \in 1..Len(result.feedback) : result.feedback[i].kind \in ClarityReasonKinds
    /\ \E i \in 1..Len(result.feedback) : result.feedback[i].kind \in CompletenessReasonKinds
    /\ result.feedback[Len(result.feedback)].kind = "total"

\* C25: in every grader's result the points reported for clarity and for completeness
\* equal max_points * multiplier(reported grade) with the table S 1.00, A 0.85,
\* B 0.70, C 0.55, D 0.40 (max 30 each by default): AutoGradingSystem.grade_answer,
\* BasicGrader.grade_answer and AutoGradingSystemV2._basic_grading.
C25_GradeScaling ==
    /\ AGReturned =>
          /\ HeaderPoints("clarity_header")
                 = Hundredths(criteria.max_clarity_score * Multiplier(result.clarity_score))
          /\ HeaderPoints("completeness_header")
                 = Hundredths(criteria.max_completeness_score
                                 * Multiplier(result.completeness_score))
    /\ (pc = "returned" /\ grader \in {"BasicGrader", "AutoGradingSystemV2"}
           /\ result.kind = "dict") =>
          /\ result.clarity.score = Hundredths(30 * Multiplier(result.clarity.grade))
          /\ result.completeness.score = Hundredths(30 * Multiplier(result.completeness.grade))

\* the positions of the lines of a kind in a transcript
LinesOf(lines, kind) == {i \in 1..Len(lines) : lines[i].kind = kind}

\* C24: for every result dictionary, one with missing sections or empty lists
\* included, format_result_for_display emits a total-score line and then the three
\* labelled sections logic, clarity, completeness in that order, each with a numeric
\* score.
C24_TranscriptShape ==
    pc = "displayed" =>
        LET lines == result.lines
            T == LinesOf(lines, "total")
            L == LinesOf(lines, "logic")
            C == LinesOf(lines, "clarity")
            M == LinesOf(lines, "completeness")
        IN /\ Cardinality(T) = 1 /\ Cardinality(L) = 1
           /\ Cardinality(C) = 1 /\ Cardinality(M) = 1
           /\ \A t \in T, l \in L, c \in C, m \in M : t < l /\ l < c /\ c < m
           /\ \A i \in T \cup L \cup C \cup M : lines[i].score \in Nat

\* C26: the fuzzy matcher is at least as lenient as the exact scorer: whenever the
\* space-stripped keyword is a substring of the space-stripped text,
\* BasicGrader.fuzzy_match(keyword, text) is true.
C26_FuzzyAtLeastExact ==
    (fm_returned /\ IsSubstring(StripSpaces(keyword), StripSpaces(text))) => fm_ret

\* the row of the longest-common-subsequence table for one more character c of the
\* first string: row[j + 1] is the length for the first j characters of b.  A row is
\* non-decreasing, so the best match of c is the last occurrence of c in b[1..j].
NextLcsRow(c, b, row) ==
    <<>> \o [j1 \in 1..(Len(b) + 1) |->
               LET hits == {k \in 1..(j1 - 1) : b[k] = c}
               IN IF hits = {} THEN row[j1]
                  ELSE LET k == CHOOSE h \in hits : \A g \in hits : g <= h
                       IN IF row[k] + 1 >= row[j1] THEN row[k] + 1 ELSE row[j1]]

RECURSIVE LcsRows(_, _, _, _)
LcsRows(a, b, i, row) ==
    IF i > Len(a) THEN row[Len(b) + 1]
    ELSE LcsRows(a, b, i + 1, NextLcsRow(a[i], b, row))

\* length of a longest common subsequence of a and b, row by row
LcsLength(a, b) == LcsRows(a, b, 1, [j1 \in 1..(Len(b) + 1) |-> 0])

\* during the scan the cursor stays in [0, len(norm_text)], the counter is at most the
\* number of keyword characters processed, and the processed part of the keyword and
\* the text before the cursor have a common subsequence of counter characters; a true
\* result of the scan path comes with a common subsequence of max(3, floor(0.7 * n))
\* characters
ScanInvariants ==
    /\ fm_pc \in {"scan", "returned_scan"} =>
          /\ 0 <= text_idx /\ text_idx <= Len(norm_text)
          /\ 0 <= matched_chars /\ matched_chars <= kw_idx
          /\ kw_idx <= Len(norm_kw)
          /\ matched_chars <= text_idx
          /\ LcsLength(SubSeq(norm_kw, 1, kw_idx), SubSeq(norm_text, 1, text_idx))
                 >= matched_chars
    /\ (fm_pc = "returned_scan" /\ fm_ret) =>
          LcsLength(norm_kw, norm_text) >= RequiredCount(Len(norm_kw))

\* a step of the loop never moves the cursor back nor lowers the counter
ScanMonotone ==
    (fm_pc = "scan" /\ fm_pc' = "scan") =>
        /\ text_idx' >= text_idx
        /\ matched_chars' >= matched_chars
        /\ matched_chars' <= matched_chars + 1

\* C27: at every step of the fuzzy_match loop the cursor is non-decreasing and stays
\* in [0, length of the normalized text], the counter is at most the number of keyword
\* characters processed so far, and the matched characters form a common subsequence
\* of keyword and text; hence a true result from the scan path implies a common
\* subsequence of length >= max(3, floor(0.7 * n)).
C27_ScanInvariants == []ScanInvariants /\ [][ScanMonotone]_vars

\* C28: evaluate_clarity returns only A, B or C, its score being one of 85, 80, 75,
\* 70, 65, 60; evaluate_completeness returns only A, B, C or D, its score lying between
\* 55 and 85; with the default maxima every total_score of grade_answer lies in
\* [28.5, 91].
C28_ReachableGrades ==
    /\ (pc = "returned" /\ grader = "evaluate_clarity") =>
          /\ result.grade \in {"A", "B", "C"}
          /\ result.score \in {85, 80, 75, 70, 65, 60}
    /\ (pc = "returned" /\ grader = "evaluate_completeness") =>
          /\ result.grade \in {"A", "B", "C", "D"}
          /\ 55 <= result.score /\ result.score <= 85
    /\ AGReturned =>
          /\ result.clarity_score \in {"A", "B", "C"}
          /\ result.completeness_score \in {"A", "B", "C", "D"}
          /\ HasDefaultMaxima =>
                /\ 2 * result.total_score >= Points(57)
                /\ 2 * result.total_score <= Points(182)

\* C28 witness: the lowest total, 28.5: no keyword matched, clarity C, completeness D
C28_Witness ==
    /\ AGReturned
    /\ HasDefaultMaxima
    /\ result.logic_score = 0
    /\ result.clarity_score = "C"
    /\ result.completeness_score = "D"
    /\ 2 * result.total_score = Points(57)

\* C29: forbidden_found is exactly the sub-list of forbidden_keywords whose members
\* are detected, in the original order and with multiplicity (a term listed twice is
\* reported and penalised twice); keyword_matches holds one entry per distinct matched
\* required keyword, with an occurrence count > 0, and no entry for an unmatched one.
C29_ResultListsMirror ==
    AGReturned =>
        LET forb == criteria.forbidden_keywords
            detected == DetectedForbidden(answer_text, criteria)
            ff == result.forbidden_found
            km == result.keyword_matches
            matched == MatchedKeywords(answer_text, criteria)
            penalties == {i \in 1..Len(result.feedback) :
                             result.feedback[i].kind = "forbidden_found"}
        IN /\ Len(ff) = Cardinality(detected)
           /\ \A i \in detected : ff[Cardinality({j \in detected : j <= i})] = forb[i]
           /\ \A i \in penalties : result.feedback[i].penalty = 2 * Cardinality(detected)
           /\ (penalties = {}) <=> (detected = {})
           /\ Len(criteria.required_keywords) > 0 =>
                 result.logic_score =
                     Max(0, (Points(criteria.max_logic_score) * Cardinality(matched))
                               \div Len(criteria.required_keywords)
                            - Points(2 * Cardinality(detected)))
           /\ {km[i].key : i \in 1..Len(km)} = matched
           /\ Len(km) = Cardinality(matched)
           /\ \A i \in 1..Len(km) : km[i].value > 0

\* C29 witness: a forbidden term listed twice is reported twice and costs 4 points,
\* and of two required keywords one is matched and the other has no entry
C29_Witness ==
    /\ AGReturned
    /\ Len(criteria.forbidden_keywords) = 2
    /\ criteria.forbidden_keywords[1] = criteria.forbidden_keywords[2]
    /\ result.forbidden_found = criteria.forbidden_keywords
    /\ Len(criteria.required_keywords) = 2
    /\ Len(result.keyword_matches) = 1
    /\ result.keyword_matches[1].key = criteria.required_keywords[2]
    /\ result.logic_score = Points(16)

\* a term whose normalized form is empty, and a term that is empty or all spaces
NormalizesToEmpty(term) == \A i \in 1..Len(term) : term[i] \in RemovedChars
AllSpaces(term) == \A i \in 1..Len(term) : term[i] = " "

\* the criteria without the forbidden entry j
WithoutForbidden(c, j) ==
    [c EXCEPT !.forbidden_keywords =
        SubSeq(c.forbidden_keywords, 1, j - 1)
            \o SubSeq(c.forbidden_keywords, j + 1, Len(c.forbidden_keywords))]

\* fuzzy_match reports every term with an empty normalized form as matched, and
\* calculate_logic_score counts every empty or all-space term
DegenerateTermsMatch ==
    /\ (BGReturned /\ result.kind = "dict") =>
          /\ \A i \in 1..Len(criteria.required_keywords) :
                NormalizesToEmpty(criteria.required_keywords[i]) =>
                    /\ criteria.required_keywords[i] \in Range(result.logic.matched)
                    /\ criteria.required_keywords[i] \notin Range(result.logic.missing)
          /\ \A i \in 1..Len(criteria.forbidden_keywords) :
                NormalizesToEmpty(criteria.forbidden_keywords[i]) =>
                    criteria.forbidden_keywords[i] \in Range(result.logic.found_forbidden)
    /\ AGReturned =>
          /\ \A i \in 1..Len(criteria.required_keywords) :
                AllSpaces(criteria.required_keywords[i]) =>
                    \E k \in 1..Len(result.keyword_matches) :
                        /\ result.keyword_matches[k].key = criteria.required_keywords[i]
                        /\ result.keyword_matches[k].value > 0
          /\ \A j \in 1..Len(criteria.forbidden_keywords) :
                AllSpaces(criteria.forbidden_keywords[j]) =>
                    /\ criteria.forbidden_keywords[j] \in Range(result.forbidden_found)
                    /\ Len(result.forbidden_found)
                           = Len(calculate_logic_score(answer_text,
                                     WithoutForbidden(criteria, j)).forbidden_found) + 1

\* C30 as stated: a term whose normalized form is empty is reported as matched by
\* fuzzy_match against every text, the empty text included; an empty or all-space term
\* is always counted by calculate_logic_score, so such a forbidden term always costs
\* 2 points.
C30_DegenerateTermsCostTwo ==
    /\ DegenerateTermsMatch
    /\ AGReturned =>
          \A j \in 1..Len(criteria.forbidden_keywords) :
              AllSpaces(criteria.forbidden_keywords[j]) =>
                  result.logic_score =
                      calculate_logic_score(answer_text,
                          WithoutForbidden(criteria, j)).final_score - Points(2)

\* C30 amended: the same, the empty or all-space forbidden term costing 2 points down
\* to the floor 0: logic_score = max(0, score without the term - 2).
C30_DegenerateTermsMatch ==
    /\ DegenerateTermsMatch
    /\ AGReturned =>
          \A j \in 1..Len(criteria.forbidden_keywords) :
              AllSpaces(criteria.forbidden_keywords[j]) =>
                  result.logic_score =
                      Max(0, calculate_logic_score(answer_text,
                                 WithoutForbidden(criteria, j)).final_score - Points(2))

\* C30 witness: against the empty answer the empty required keyword is counted and
\* the all-space forbidden term is reported, leaving 38 of 40 points
C30_Witness ==
    /\ AGReturned
    /\ answer_text = <<>>
    /\ criteria.required_keywords = <<<<>>>>
    /\ criteria.forbidden_keywords = <<<<" ", " ">>>>
    /\ Len(result.keyword_matches) = 1
    /\ result.forbidden_found = criteria.forbidden_keywords
    /\ result.logic_score = Points(38)

====
